---- MODULE Spec2Model ----
(***************************************************************************)
(* Model of the entry parser/validator and the maintenance pipeline of the *)
(* opensourcegames tools:                                                  *)
(*   tools/utils/osg.py     parse_entry (raises on a violation: "strict"), *)
(*                          assemble_infos                                 *)
(*   tools/maintenance.py   parse_entry (prints and returns the partial    *)
(*                          record: "lenient"), assemble_infos,            *)
(*                          generate_statistics, export_json,              *)
(*                          update_primary_code_repositories               *)
(*                                                                         *)
(* A Python str is a sequence of one-character strings, so that re.sub,    *)
(* split, strip, startswith and slicing are computed character by          *)
(* character.  A Python dict is a function whose DOMAIN is its key set.    *)
(***************************************************************************)
EXTENDS Integers, Sequences, FiniteSets, TLC

-----------------------------------------------------------------------------
(* Generic sequence helpers                                                *)

Range(s) == {s[i] : i \in 1..Len(s)}

\* s[i:] of Python for a 1-based start position
DropFirst(s, n) == SubSeq(s, n + 1, Len(s))

-----------------------------------------------------------------------------
(* Python str operations on character sequences                            *)

\* the characters str.strip() removes, among those the model's texts use
Whitespace == {" ", "\t"}

\* str.startswith(prefix)
startswith(s, prefix) ==
    /\ Len(s) >= Len(prefix)
    /\ SubSeq(s, 1, Len(prefix)) = prefix

\* str.endswith(suffix)
endswith(s, suffix) ==
    /\ Len(s) >= Len(suffix)
    /\ SubSeq(s, Len(s) - Len(suffix) + 1, Len(s)) = suffix

\* sub in s (substring test)
contains(s, sub) ==
    \E i \in 1..(Len(s) - Len(sub) + 1) : SubSeq(s, i, i + Len(sub) - 1) = sub

RECURSIVE lstrip(_)
lstrip(s) ==
    IF s # <<>> /\ Head(s) \in Whitespace THEN lstrip(Tail(s)) ELSE s

RECURSIVE rstrip(_)
rstrip(s) ==
    IF s # <<>> /\ s[Len(s)] \in Whitespace
    THEN rstrip(SubSeq(s, 1, Len(s) - 1))
    ELSE s

\* str.strip()
strip(s) == rstrip(lstrip(s))

\* str.split(sep) for a non-empty separator: the pieces between the
\* non-overlapping occurrences of sep found left to right, empty pieces kept
RECURSIVE split(_, _)
split(s, sep) ==
    LET hits == {i \in 1..(Len(s) - Len(sep) + 1) :
                     SubSeq(s, i, i + Len(sep) - 1) = sep}
    IN  IF hits = {}
        THEN <<s>>
        ELSE LET i == CHOOSE h \in hits : \A g \in hits : h <= g
             IN  <<SubSeq(s, 1, i - 1)>> \o split(DropFirst(s, i + Len(sep) - 1), sep)

\* re.sub of a parenthesis with its content: every "(" that has a ")" after
\* it is removed together with everything up to the first such ")"; the scan
\* goes on after that ")"
RECURSIVE re_sub_parenthesis(_)
re_sub_parenthesis(v) ==
    LET opening == {i \in 1..Len(v) :
                       v[i] = "(" /\ \E j \in (i + 1)..Len(v) : v[j] = ")"}
        i == CHOOSE o \in opening : \A p \in opening : o <= p
        closing == {j \in (i + 1)..Len(v) : v[j] = ")"}
        j == CHOOSE c \in closing : \A d \in closing : c <= d
    IN  IF opening = {} THEN v
        ELSE SubSeq(v, 1, i - 1) \o re_sub_parenthesis(DropFirst(v, j))

-----------------------------------------------------------------------------
(* Python dict operations                                                  *)

\* {}
EmptyDict == <<>>

\* d[k] = v
Store(d, k, v) == (k :> v) @@ d

\* k in d
Has(d, k) == k \in DOMAIN d

-----------------------------------------------------------------------------
(* canonical_entry_name of tools/utils/osg.py                              *)

\* str.casefold() of one character of the ASCII alphabet
casefold(ch) ==
    CASE ch = "A" -> "a"
      [] ch = "B" -> "b"
      [] ch = "C" -> "c"
      [] ch = "D" -> "d"
      [] ch = "E" -> "e"
      [] ch = "F" -> "f"
      [] ch = "G" -> "g"
      [] ch = "H" -> "h"
      [] ch = "I" -> "i"
      [] ch = "J" -> "j"
      [] ch = "K" -> "k"
      [] ch = "L" -> "l"
      [] ch = "M" -> "m"
      [] ch = "N" -> "n"
      [] ch = "O" -> "o"
      [] ch = "P" -> "p"
      [] ch = "Q" -> "q"
      [] ch = "R" -> "r"
      [] ch = "S" -> "s"
      [] ch = "T" -> "t"
      [] ch = "U" -> "u"
      [] ch = "V" -> "v"
      [] ch = "W" -> "w"
      [] ch = "X" -> "x"
      [] ch = "Y" -> "y"
      [] ch = "Z" -> "z"
      [] OTHER -> ch

\* the characters that regex_sanitize_name keeps: letters, space, digits,
\* "-" and "+"
sanitize_keeps ==
    {"A", "B", "C", "D", "E", "F", "G", "H", "I", "J", "K", "L", "M", "N", "O", "P", "Q", "R", "S", "T", "U", "V", "W", "X", "Y", "Z",
     "a", "b", "c", "d", "e", "f", "g", "h", "i", "j", "k", "l", "m", "n", "o", "p", "q", "r", "s", "t", "u", "v", "w", "x", "y", "z",
     " ", "0", "1", "2", "3", "4", "5", "6", "7", "8", "9", "-", "+"}

\* regex_sanitize_name.sub('', name)
regex_sanitize_name(name) == SelectSeq(name, LAMBDA ch : ch \in sanitize_keeps)

\* the string without its leading spaces
RECURSIVE lstrip_spaces(_)
lstrip_spaces(s) ==
    IF s # <<>> /\ Head(s) = " " THEN lstrip_spaces(Tail(s)) ELSE s

\* regex_sanitize_name_space_eater.sub('_', name): every run of spaces
\* becomes one underscore
RECURSIVE regex_sanitize_name_space_eater(_)
regex_sanitize_name_space_eater(name) ==
    IF name = <<>> THEN <<>>
    ELSE IF Head(name) = " "
    THEN <<"_">> \o regex_sanitize_name_space_eater(lstrip_spaces(Tail(name)))
    ELSE <<Head(name)>> \o regex_sanitize_name_space_eater(Tail(name))

\* str.replace(old, new): the non-overlapping occurrences of old, found left
\* to right, replaced
RECURSIVE replace(_, _, _)
replace(s, old, new) ==
    LET hits == {i \in 1..(Len(s) - Len(old) + 1) :
                     SubSeq(s, i, i + Len(old) - 1) = old}
        i == CHOOSE h \in hits : \A g \in hits : h <= g
    IN  IF hits = {} THEN s
        ELSE SubSeq(s, 1, i - 1) \o new
             \o replace(DropFirst(s, i + Len(old) - 1), old, new)

\* the names of the entry texts hold no umlaut, so the three replace calls for
\* them change nothing
canonical_entry_name(name) ==
    LET n1 == [i \in 1..Len(name) |-> casefold(name[i])]
        n2 == regex_sanitize_name(n1)
        n3 == regex_sanitize_name_space_eater(n2)
        n4 == replace(n3, <<"_", "-", "_">>, <<"-">>)
        n5 == replace(n4, <<"-", "-">>, <<"-">>)
    IN  replace(n5, <<"-", "-">>, <<"-">>)

-----------------------------------------------------------------------------
(* Vocabulary tables of tools/utils/osg.py                                 *)

osg_essential_fields ==
    <<"Home", "State", "Keywords", "Code repository", "Code language", "Code license">>

osg_valid_fields ==
    <<"Home", "Media", "State", "Play", "Download", "Platform", "Keywords",
      "Code repository", "Code language", "Code license", "Code dependencies",
      "Assets license", "Developer", "Build system", "Build instructions">>

osg_valid_platforms ==
    << <<"W", "i", "n", "d", "o", "w", "s">>,
       <<"L", "i", "n", "u", "x">>,
       <<"m", "a", "c", "O", "S">>,
       <<"A", "n", "d", "r", "o", "i", "d">>,
       <<"i", "O", "S">>,
       <<"W", "e", "b">> >>

recommended_keywords ==
    << <<"a", "c", "t", "i", "o", "n">>,
       <<"a", "r", "c", "a", "d", "e">>,
       <<"a", "d", "v", "e", "n", "t", "u", "r", "e">>,
       <<"v", "i", "s", "u", "a", "l", " ", "n", "o", "v", "e", "l">>,
       <<"s", "p", "o", "r", "t", "s">>,
       <<"p", "l", "a", "t", "f", "o", "r", "m">>,
       <<"p", "u", "z", "z", "l", "e">>,
       <<"r", "o", "l", "e", " ", "p", "l", "a", "y", "i", "n", "g">>,
       <<"s", "i", "m", "u", "l", "a", "t", "i", "o", "n">>,
       <<"s", "t", "r", "a", "t", "e", "g", "y">>,
       <<"c", "a", "r", "d", " ", "g", "a", "m", "e">>,
       <<"b", "o", "a", "r", "d", " ", "g", "a", "m", "e">>,
       <<"m", "u", "s", "i", "c">>,
       <<"e", "d", "u", "c", "a", "t", "i", "o", "n", "a", "l">>,
       <<"t", "o", "o", "l">>,
       <<"g", "a", "m", "e", " ", "e", "n", "g", "i", "n", "e">>,
       <<"f", "r", "a", "m", "e", "w", "o", "r", "k">>,
       <<"l", "i", "b", "r", "a", "r", "y">>,
       <<"r", "e", "m", "a", "k", "e">> >>

\* the languages that raise no warning
known_languages ==
    << <<"A", "G", "S", " ", "S", "c", "r", "i", "p", "t">>,
       <<"A", "c", "t", "i", "o", "n", "S", "c", "r", "i", "p", "t">>,
       <<"A", "d", "a">>,
       <<"A", "n", "g", "e", "l", "S", "c", "r", "i", "p", "t">>,
       <<"A", "s", "s", "e", "m", "b", "l", "y">>,
       <<"B", "a", "s", "i", "c">>,
       <<"B", "l", "e", "n", "d", "e", "r", " ", "S", "c", "r", "i", "p", "t">>,
       <<"B", "l", "i", "t", "z", "M", "a", "x">>,
       <<"C">>,
       <<"C", "#">>,
       <<"C", "+", "+">>,
       <<"C", "l", "o", "j", "u", "r", "e">>,
       <<"C", "o", "f", "f", "e", "e", "S", "c", "r", "i", "p", "t">>,
       <<"C", "o", "l", "d", "F", "u", "s", "i", "o", "n">>,
       <<"D">>,
       <<"D", "M">>,
       <<"D", "a", "r", "t">>,
       <<"D", "i", "a">>,
       <<"E", "l", "m">>,
       <<"E", "m", "a", "c", "s", " ", "L", "i", "s", "p">>,
       <<"F", "#">>,
       <<"G", "D", "S", "c", "r", "i", "p", "t">>,
       <<"G", "a", "m", "e", " ", "M", "a", "k", "e", "r", " ", "S", "c", "r", "i", "p", "t">>,
       <<"G", "o">>,
       <<"G", "r", "o", "o", "v", "y">>,
       <<"H", "a", "s", "k", "e", "l", "l">>,
       <<"H", "a", "x", "e">>,
       <<"I", "o">>,
       <<"J", "a", "v", "a">>,
       <<"J", "a", "v", "a", "S", "c", "r", "i", "p", "t">>,
       <<"K", "o", "t", "l", "i", "n">>,
       <<"L", "i", "s", "p">>,
       <<"L", "u", "a">>,
       <<"M", "e", "g", "a", "G", "l", "e", "s", "t", " ", "S", "c", "r", "i", "p", "t">>,
       <<"M", "o", "o", "n", "S", "c", "r", "i", "p", "t">>,
       <<"N", "o", "n", "e">>,
       <<"O", "C", "a", "m", "l">>,
       <<"O", "b", "j", "e", "c", "t", "i", "v", "e", "-", "C">>,
       <<"P", "H", "P">>,
       <<"P", "a", "s", "c", "a", "l">>,
       <<"P", "e", "r", "l">>,
       <<"P", "y", "t", "h", "o", "n">>,
       <<"Q", "u", "a", "k", "e", "C">>,
       <<"R">>,
       <<"R", "e", "n", "'", "p", "y">>,
       <<"R", "u", "b", "y">>,
       <<"R", "u", "s", "t">>,
       <<"S", "c", "a", "l", "a">>,
       <<"S", "c", "h", "e", "m", "e">>,
       <<"S", "c", "r", "i", "p", "t">>,
       <<"S", "h", "e", "l", "l">>,
       <<"S", "w", "i", "f", "t">>,
       <<"T", "o", "r", "q", "u", "e", "S", "c", "r", "i", "p", "t">>,
       <<"T", "y", "p", "e", "S", "c", "r", "i", "p", "t">>,
       <<"V", "a", "l", "a">>,
       <<"V", "i", "s", "u", "a", "l", " ", "B", "a", "s", "i", "c">>,
       <<"X", "U", "L">>,
       <<"Z", "e", "n", "S", "c", "r", "i", "p", "t">>,
       <<"o", "o", "c">> >>

\* the licenses that raise no warning
known_licenses ==
    << <<"2", "-", "c", "l", "a", "u", "s", "e", " ", "B", "S", "D">>,
       <<"3", "-", "c", "l", "a", "u", "s", "e", " ", "B", "S", "D">>,
       <<"A", "F", "L", "-", "3", ".", "0">>,
       <<"A", "G", "P", "L", "-", "3", ".", "0">>,
       <<"A", "p", "a", "c", "h", "e", "-", "2", ".", "0">>,
       <<"A", "r", "t", "i", "s", "t", "i", "c", " ", "L", "i", "c", "e", "n", "s", "e", "-", "1", ".", "0">>,
       <<"A", "r", "t", "i", "s", "t", "i", "c", " ", "L", "i", "c", "e", "n", "s", "e", "-", "2", ".", "0">>,
       <<"B", "o", "o", "s", "t", "-", "1", ".", "0">>,
       <<"C", "C", "-", "B", "Y", "-", "N", "C", "-", "3", ".", "0">>,
       <<"C", "C", "-", "B", "Y", "-", "N", "C", "-", "S", "A", "-", "2", ".", "0">>,
       <<"C", "C", "-", "B", "Y", "-", "N", "C", "-", "S", "A", "-", "3", ".", "0">>,
       <<"C", "C", "-", "B", "Y", "-", "S", "A", "-", "3", ".", "0">>,
       <<"C", "C", "-", "B", "Y", "-", "N", "C", "-", "S", "A", "-", "4", ".", "0">>,
       <<"C", "C", "-", "B", "Y", "-", "S", "A", "-", "4", ".", "0">>,
       <<"C", "C", "0">>,
       <<"C", "u", "s", "t", "o", "m">>,
       <<"E", "P", "L", "-", "2", ".", "0">>,
       <<"G", "P", "L", "-", "2", ".", "0">>,
       <<"G", "P", "L", "-", "3", ".", "0">>,
       <<"I", "J", "G">>,
       <<"I", "S", "C">>,
       <<"J", "a", "v", "a", " ", "R", "e", "s", "e", "a", "r", "c", "h", " ", "L", "i", "c", "e", "n", "s", "e">>,
       <<"L", "G", "P", "L", "-", "2", ".", "0">>,
       <<"L", "G", "P", "L", "-", "2", ".", "1">>,
       <<"L", "G", "P", "L", "-", "3", ".", "0">>,
       <<"M", "A", "M", "E">>,
       <<"M", "I", "T">>,
       <<"M", "P", "L", "-", "1", ".", "1">>,
       <<"M", "P", "L", "-", "2", ".", "0">>,
       <<"M", "S", "-", "P", "L">>,
       <<"M", "S", "-", "R", "L">>,
       <<"N", "e", "t", "H", "a", "c", "k", " ", "G", "e", "n", "e", "r", "a", "l", " ", "P", "u", "b", "l", "i", "c", " ", "L", "i", "c", "e", "n", "s", "e">>,
       <<"N", "o", "n", "e">>,
       <<"P", "r", "o", "p", "r", "i", "e", "t", "a", "r", "y">>,
       <<"P", "u", "b", "l", "i", "c", " ", "d", "o", "m", "a", "i", "n">>,
       <<"S", "W", "I", "G", " ", "l", "i", "c", "e", "n", "s", "e">>,
       <<"U", "n", "l", "i", "c", "e", "n", "s", "e">>,
       <<"W", "T", "F", "P", "L">>,
       <<"w", "x", "W", "i", "n", "d", "o", "w", "s", " ", "l", "i", "c", "e", "n", "s", "e">>,
       <<"z", "l", "i", "b">> >>

\* the prefixes a URL may start with in osg.parse_entry
osg_url_prefixes ==
    << <<"h", "t", "t", "p", ":", "/", "/">>,
       <<"h", "t", "t", "p", "s", ":", "/", "/">>,
       <<"g", "i", "t", ":", "/", "/">>,
       <<"s", "v", "n", ":", "/", "/">>,
       <<"f", "t", "p", ":", "/", "/">>,
       <<"b", "z", "r", ":", "/", "/">> >>

\* the fields whose values are URLs, in the order they are checked
url_fields == <<"home", "download", "play", "code repository">>

\* the state tokens and the prefix of the inactivity marker
beta == <<"b", "e", "t", "a">>
mature == <<"m", "a", "t", "u", "r", "e">>
phrase == <<"i", "n", "a", "c", "t", "i", "v", "e", " ", "s", "i", "n", "c", "e", " ">>

\* str.lower() of a field name, for the field names of the entry texts
lower(field) ==
    CASE field = "Home" -> "home"
      [] field = "Media" -> "media"
      [] field = "State" -> "state"
      [] field = "Play" -> "play"
      [] field = "Download" -> "download"
      [] field = "Platform" -> "platform"
      [] field = "Keywords" -> "keywords"
      [] field = "Code repository" -> "code repository"
      [] field = "Code language" -> "code language"
      [] field = "Code license" -> "code license"
      [] field = "Code dependencies" -> "code dependencies"
      [] field = "Assets license" -> "assets license"
      [] field = "Developer" -> "developer"
      [] field = "Build system" -> "build system"
      [] field = "Build instructions" -> "build instructions"
      [] field = "Foo" -> "foo"

-----------------------------------------------------------------------------
(* The entry text.                                                         *)
(*                                                                         *)
(* An entry text is modelled by what the three regular expressions of      *)
(* parse_entry read from it:                                               *)
(*   name         the text after "# " on the first line (<<>>: the first   *)
(*                line has no such text)                                   *)
(*   description  the text between the underscores of the third line       *)
(*                (<<>>: there is no such text)                            *)
(*   lines        the lines "- <field>: <raw>" in document order; the      *)
(*                narrative lines, which no regular expression matches,    *)
(*                are left out                                             *)

\* regex.findall of the field-name pattern ("- ", the name, ": " at the
\* start of a line): the field names in document order, a repeated name repeated
find_fields(content) ==
    [i \in 1..Len(content.lines) |-> content.lines[i].field]

\* regex.findall of the pattern of one field ("- <field>: " and the rest of
\* the line): the raw values of the lines of this field
find_values(content, field) ==
    LET at == SelectSeq([i \in 1..Len(content.lines) |-> i],
                        LAMBDA i : content.lines[i].field = field)
    IN  [k \in 1..Len(at) |-> content.lines[at[k]].raw]

-----------------------------------------------------------------------------
(* Steps shared by the two parse_entry functions (the code is the same in  *)
(* both files up to the list scanned or the separator split on)            *)

\* the essential fields that are not among the field names, in table order
missing_fields(fields, essential) ==
    SelectSeq(essential, LAMBDA f : f \notin Range(fields))

\* advance with the loop ended one position early
RECURSIVE advance_short(_, _, _)
advance_short(valid, item, index) ==
    IF index < Len(valid) /\ item # valid[index]
    THEN advance_short(valid, item, index + 1)
    ELSE index

\* while index < len(valid) and item != valid[index]: index += 1
\* (positions are 1-based here: Len(valid) + 1 stands for len(valid))
RECURSIVE advance(_, _, _)
advance(valid, item, index) ==
    IF index <= Len(valid) /\ item # valid[index]
    THEN advance(valid, item, index + 1)
    ELSE index

\* order_scan with the cursor started again for every item
RECURSIVE order_scan_restart(_, _, _)
order_scan_restart(valid, items, index) ==
    IF items = <<>> THEN <<>>
    ELSE (IF advance(valid, Head(items), index) = Len(valid) + 1
          THEN <<Head(items)>> ELSE <<>>)
         \o order_scan_restart(valid, Tail(items), index)

\* the forward-cursor scan: the items that the cursor cannot reach, in order
\* (once the cursor is at len(valid) every later item fails too)
RECURSIVE order_scan(_, _, _)
order_scan(valid, items, index) ==
    IF items = <<>> THEN <<>>
    ELSE LET next == advance(valid, Head(items), index)
         IN  (IF next = Len(valid) + 1 THEN <<Head(items)>> ELSE <<>>)
             \o order_scan(valid, Tail(items), next)

\* x[1:-1] if x[0] is '<' and x[-1] is '>' else x   (x is never empty here)
unwrap(x) ==
    IF x[1] = "<" /\ x[Len(x)] = ">" THEN SubSeq(x, 2, Len(x) - 1) ELSE x

\* the decoding of one raw value: strip the parenthesised parts, split on the
\* separator, strip each piece, drop the empty pieces, unwrap <...>
decode(raw, sep) ==
    LET v1 == re_sub_parenthesis(raw)
        v2 == split(v1, sep)
        v3 == [i \in 1..Len(v2) |-> strip(v2[i])]
        v4 == SelectSeq(v3, LAMBDA x : x # <<>>)
    IN  [i \in 1..Len(v4) |-> unwrap(v4[i])]

\* the loop over the found fields, for fields that each occur once: the raw
\* value is stored under "<field>-raw" and the decoded list, unless it is
\* empty, under the lower-case field name
RECURSIVE store_fields(_, _, _, _)
store_fields(content, fields, sep, info) ==
    IF fields = <<>> THEN info
    ELSE LET field == Head(fields)
             raw == find_values(content, field)[1]
             v == decode(raw, sep)
             info1 == Store(info, lower(field) \o "-raw", raw)
             info2 == IF v = <<>> THEN info1 ELSE Store(info1, lower(field), v)
         IN  store_fields(content, Tail(fields), sep, info2)

\* [x[len(phrase):] for x in v if x.startswith(phrase)]
inactive_years(v) ==
    LET marked == SelectSeq(v, LAMBDA x : startswith(x, phrase))
    IN  [i \in 1..Len(marked) |-> DropFirst(marked[i], Len(phrase))]

\* unknown_state_tags with only the first token looked at
unknown_state_tags_first(v) ==
    SelectSeq(SubSeq(v, 1, 1),
              LAMBDA t : t # beta /\ t # mature /\ ~startswith(t, phrase))

\* the state tokens that are neither beta, mature nor an inactivity marker
unknown_state_tags(v) ==
    SelectSeq(v, LAMBDA t : t # beta /\ t # mature /\ ~startswith(t, phrase))

\* 'beta' in v != 'mature' in v, which Python evaluates as the chain
\* ('beta' in v) and (v != 'mature') and ('mature' in v); the middle
\* comparison is of a list with a str, which are never equal
state_condition(v) ==
    /\ beta \in Range(v)
    /\ TRUE
    /\ mature \in Range(v)

\* the values of the URL fields present in info, with their field, in the
\* order the two nested loops visit them
RECURSIVE urls_of(_, _)
urls_of(info, fields) ==
    IF fields = <<>> THEN <<>>
    ELSE (IF Has(info, Head(fields)) THEN info[Head(fields)] ELSE <<>>)
         \o urls_of(info, Tail(fields))

-----------------------------------------------------------------------------
(* parse_entry of tools/utils/osg.py                                       *)
(*                                                                         *)
(* The result is [raised, error, info, printed]: raised is "none" when the *)
(* function returns info, and else the exception class that leaves it (no  *)
(* value is returned then); error names the message of the exception;      *)
(* printed holds the messages printed on the way, in order.                *)

\* Return with a record that came with a warning turned into a rejection
Return_if_quiet(info, printed) ==
    IF printed = <<>>
    THEN [raised |-> "none", error |-> "none", info |-> info, printed |-> printed]
    ELSE [raised |-> "RuntimeError", error |-> printed[Len(printed)],
          info |-> EmptyDict, printed |-> printed]

Return(info, printed) ==
    [raised |-> "none", error |-> "none", info |-> info, printed |-> printed]

Raise(class, error, printed) ==
    [raised |-> class, error |-> error, info |-> EmptyDict, printed |-> printed]

\* a URL passes when it starts with one of the prefixes ...
osg_url_prefix_ok(url) ==
    \E i \in 1..Len(osg_url_prefixes) : startswith(url, osg_url_prefixes[i])

\* url_space_free with the test left out
url_space_free_always(url) == TRUE

\* ... and holds no space character
url_space_free(url) == ~contains(url, <<" ">>)

\* the fields checked a second time after decoding
osg_essential_after_decoding ==
    <<"home", "state", "keywords", "code language", "code license">>

\* the code hosts whose repositories should start with https and end on .git
osg_git_hosts ==
    << <<"g", "i", "t", "h", "u", "b">>,
       <<"g", "i", "t", "l", "a", "b">>,
       <<"g", "i", "t", ".", "t", "u", "x", "f", "a", "m", "i", "l", "y">>,
       <<"g", "i", "t", ".", "s", "a", "v", "a", "n", "n", "a", "h">> >>

https_prefix == <<"h", "t", "t", "p", "s", ":", "/", "/">>
git_suffix == <<".", "g", "i", "t">>

\* the warning about leading or trailing spaces in the entry name
osg_name_warnings(info) ==
    IF Len(info["name"]) # Len(strip(info["name"]))
    THEN <<"Warning: No leading or trailing spaces in the entry name">>
    ELSE <<>>

\* the warnings about the repositories on the known git hosts
RECURSIVE osg_repo_warnings(_)
osg_repo_warnings(repos) ==
    IF repos = <<>> THEN <<>>
    ELSE LET repo == Head(repos)
             known == \E i \in 1..Len(osg_git_hosts) : contains(repo, osg_git_hosts[i])
         IN  (IF known /\ ~startswith(repo, https_prefix)
              THEN <<"Warning: Repo should start with https://">> ELSE <<>>)
             \o (IF known /\ ~endswith(repo, git_suffix)
                 THEN <<"Warning: Repo should end on .git">> ELSE <<>>)
             \o osg_repo_warnings(Tail(repos))

\* the warnings about the values that are not in a vocabulary table
RECURSIVE osg_vocabulary_warnings(_, _, _)
osg_vocabulary_warnings(values, known, warning) ==
    IF values = <<>> THEN <<>>
    ELSE (IF Head(values) \notin Range(known) THEN <<warning>> ELSE <<>>)
         \o osg_vocabulary_warnings(Tail(values), known, warning)

\* the checks on the decoded fields, from the check of the name on
osg_check_content(info) ==
    LET printed1 == osg_name_warnings(info)
        v == info["state"]
        inactive_year == inactive_years(v)
        info1 == IF inactive_year # <<>>
                 THEN Store(info, "inactive", inactive_year[1])
                 ELSE info
        urls == urls_of(info1, url_fields)
        badprefix == {i \in 1..Len(urls) : ~osg_url_prefix_ok(urls[i])}
        badspace == {i \in 1..Len(urls) : ~url_space_free(urls[i])}
        firstbad == CHOOSE i \in badprefix \cup badspace :
                        \A j \in badprefix \cup badspace : i <= j
        printed2 == printed1 \o (IF Has(info1, "code repository")
                                 THEN osg_repo_warnings(info1["code repository"])
                                 ELSE <<>>)
    IN  IF unknown_state_tags(v) # <<>>
        THEN Raise("RuntimeError", "Unknown state tage", printed1)
        ELSE IF state_condition(v)
        THEN Raise("RuntimeError", "State must be one of", printed1)
        ELSE IF Len(inactive_year) > 1
        THEN Raise("AssertionError", "assert len(inactive_year) <= 1", printed1)
        ELSE IF badprefix \cup badspace # {}
        THEN (IF firstbad \in badprefix
              THEN Raise("RuntimeError", "URL does not start with", printed1)
              ELSE Raise("RuntimeError", "URL contains a space", printed1))
        ELSE IF Has(info1, "platform")
                /\ order_scan(osg_valid_platforms, info1["platform"], 1) # <<>>
        THEN Raise("RuntimeError", "Platform tag either misspelled or in wrong order",
                   printed2)
        ELSE IF ~Has(info1, "keywords")
        THEN Raise("RuntimeError", "Need at least one keyword", printed2)
        ELSE IF \A i \in 1..Len(recommended_keywords) :
                    recommended_keywords[i] \notin Range(info1["keywords"])
        THEN Raise("RuntimeError", "contains no recommended keyword", printed2)
        ELSE Return(info1,
                    printed2
                    \o osg_vocabulary_warnings(info1["code language"], known_languages,
                                               "Warning: Language is not a known language")
                    \o osg_vocabulary_warnings(info1["code license"], known_licenses,
                                               "Warning: License is not a known license"))

osg_parse_entry(content) ==
    LET fields == find_fields(content)
        info0 == Store(Store(EmptyDict, "name", content.name),
                       "description", content.description)
        info == store_fields(content, fields, <<",", " ">>, info0)
    IN  IF content.name = <<>>
        THEN Raise("RuntimeError", "Name not found", <<>>)
        ELSE IF content.description = <<>>
        THEN Raise("RuntimeError", "Description not found", <<>>)
        ELSE IF missing_fields(fields, osg_essential_fields) # <<>>
        THEN Raise("RuntimeError", "Essential field missing", <<>>)
        ELSE IF order_scan(osg_valid_fields, fields, 1) # <<>>
        THEN Raise("RuntimeError", "either misspelled or in wrong order", <<>>)
        ELSE IF \E i \in 1..Len(fields) : Len(find_values(content, fields[i])) # 1
        THEN Raise("RuntimeError", "exist multiple times", <<>>)
        ELSE IF \E i \in 1..Len(osg_essential_after_decoding) :
                    ~Has(info, osg_essential_after_decoding[i])
        THEN Raise("RuntimeError", "Essential field empty", <<>>)
        ELSE osg_check_content(info)

-----------------------------------------------------------------------------
(* parse_entry of tools/maintenance.py                                     *)
(*                                                                         *)
(* A failed check prints an error and returns the record as far as it was  *)
(* built: the result then has raised = "none" and error = the check.  The  *)
(* assert statements and the lookup info['state'] raise.                   *)

maintenance_essential_fields == <<"Home", "State", "Code repository", "Code language">>

maintenance_valid_fields ==
    <<"Home", "Media", "State", "Play", "Download", "Platform", "Keywords",
      "Code repository", "Code language", "Code license", "Code dependencies",
      "Assets license", "Build system", "Build instructions">>

maintenance_valid_platforms ==
    << <<"A", "n", "d", "r", "o", "i", "d">>,
       <<"W", "i", "n", "d", "o", "w", "s">>,
       <<"L", "i", "n", "u", "x">>,
       <<"m", "a", "c", "O", "S">>,
       <<"B", "r", "o", "w", "s", "e", "r">> >>

maintenance_url_prefixes ==
    << <<"h", "t", "t", "p", ":", "/", "/">>,
       <<"h", "t", "t", "p", "s", ":", "/", "/">>,
       <<"g", "i", "t", ":", "/", "/">> >>

github_prefix ==
    <<"h", "t", "t", "p", "s", ":", "/", "/", "g", "i", "t", "h", "u", "b", ".", "c", "o", "m", "/">>

\* the record is returned after a failed check, with the error printed
Reject(error, info, printed) ==
    [raised |-> "none", error |-> error, info |-> info,
     printed |-> Append(printed, "Error: " \o error)]

\* the messages about the URLs, which do not end the function
RECURSIVE maintenance_url_messages(_)
maintenance_url_messages(urls) ==
    IF urls = <<>> THEN <<>>
    ELSE LET url == Head(urls)
         IN  (IF ~\E i \in 1..Len(maintenance_url_prefixes) :
                       startswith(url, maintenance_url_prefixes[i])
              THEN <<"URL does not start with http">> ELSE <<>>)
             \o (IF ~url_space_free(url) THEN <<"URL contains a space">> ELSE <<>>)
             \o maintenance_url_messages(Tail(urls))

\* the messages about github repositories
RECURSIVE maintenance_repo_messages(_)
maintenance_repo_messages(repos) ==
    IF repos = <<>> THEN <<>>
    ELSE (IF startswith(Head(repos), github_prefix) /\ ~endswith(Head(repos), git_suffix)
          THEN <<"Github repo should end on .git">> ELSE <<>>)
         \o maintenance_repo_messages(Tail(repos))

\* the checks on the decoded fields, from the state check on
maintenance_check_content(info) ==
    LET v == info["state"]
        inactive_year == inactive_years(v)
        info1 == IF inactive_year # <<>>
                 THEN Store(info, "inactive", inactive_year[1])
                 ELSE info
        printed == maintenance_url_messages(urls_of(info1, url_fields))
                   \o (IF Has(info1, "code repository")
                       THEN maintenance_repo_messages(info1["code repository"])
                       ELSE <<>>)
    IN  IF ~Has(info, "state")
        THEN Raise("KeyError", "state", <<>>)
        ELSE IF unknown_state_tags(v) # <<>>
        THEN Reject("Unknown state tage", info, <<>>)
        ELSE IF state_condition(v)
        THEN Reject("State must be one of", info, <<>>)
        ELSE IF Len(inactive_year) > 1
        THEN Raise("AssertionError", "assert len(inactive_year) <= 1", <<>>)
        ELSE IF Has(info1, "platform")
                /\ \E i \in 1..Len(info1["platform"]) :
                       info1["platform"][i] \notin Range(maintenance_valid_platforms)
        THEN Reject("invalid platform tag", info1, printed)
        ELSE Return(info1, printed)

maintenance_parse_entry(content) ==
    LET fields == find_fields(content)
        info0 == Store(Store(EmptyDict, "title", content.name),
                       "description", content.description)
        info == store_fields(content, fields, <<",">>, info0)
    IN  IF content.name = <<>>
        THEN Raise("AssertionError", "assert title", <<>>)
        ELSE IF content.description = <<>>
        THEN Raise("AssertionError", "assert description", <<>>)
        ELSE IF missing_fields(fields, maintenance_essential_fields) # <<>>
        THEN Reject("Essential field missing", info0, <<>>)
        ELSE IF order_scan(maintenance_valid_fields, fields, 1) # <<>>
        THEN Reject("either misspelled or in wrong order", info0, <<>>)
        ELSE IF \E i \in 1..Len(fields) : Len(find_values(content, fields[i])) # 1
        THEN Raise("AssertionError", "assert len(matches) == 1", <<>>)
        ELSE maintenance_check_content(info)

-----------------------------------------------------------------------------
(* The entry texts the model reads                                         *)

\* the raw values the entry texts give a field; the first is the value of a
\* well-formed entry
raw_values(field) ==
    CASE field = "Home" ->
           << <<"h", "t", "t", "p", "s", ":", "/", "/", "a", ".", "b">>,
              <<"(", "x", ")">>,
              <<"h", "t", "t", "p", "s", ":", "/", "/", "a", "\t", "b">>,
              <<"h", "t", "t", "p", "s", ":", "/", "/", "a", " ", "b">>,
              <<"f", "t", "p", ":", "/", "/", "a", ".", "b">>,
              <<"a", ".", "b">>,
              <<"<", ">">>,
              <<"h", "t", "t", "p", "s", ":", "/", "/", "a", ".", "b", ",", " ", "h", "t", "t", "p", ":", "/", "/", "c", ".", "d">> >>
      [] field = "State" ->
           << <<"m", "a", "t", "u", "r", "e">>,
              <<"b", "e", "t", "a">>,
              <<"m", "a", "t", "u", "r", "e", ",", " ", "i", "n", "a", "c", "t", "i", "v", "e", " ", "s", "i", "n", "c", "e", " ", "2", "0", "1", "9">>,
              <<"b", "e", "t", "a", ",", " ", "m", "a", "t", "u", "r", "e">>,
              <<"c", "a", "s", "u", "a", "l">>,
              <<"i", "n", "a", "c", "t", "i", "v", "e", " ", "s", "i", "n", "c", "e", " ", "2", "0", "1", "9">>,
              <<"b", "e", "t", "a", ",", " ", "i", "n", "a", "c", "t", "i", "v", "e", " ", "s", "i", "n", "c", "e", " ", "2", "0", "1", "9", ",", " ", "i", "n", "a", "c", "t", "i", "v", "e", " ", "s", "i", "n", "c", "e", " ", "2", "0", "2", "0">>,
              <<"(", "x", ")">>,
              <<"b", "e", "t", "a", ",", " ", "<", "i", "n", "a", "c", "t", "i", "v", "e", " ", "s", "i", "n", "c", "e", " ", ">">>,
              <<"m", "a", "t", "u", "r", "e", ",", " ", "i", "n", "a", "c", "t", "i", "v", "e", " ", "s", "i", "n", "c", "e", " ", "n", "e", "v", "e", "r">>,
              <<"i", "n", "a", "c", "t", "i", "v", "e", " ", "s", "i", "n", "c", "e", " ", "2", "0", "2", "0", ",", " ", "b", "e", "t", "a">>,
              <<"m", "a", "t", "u", "r", "e", ",", " ", "c", "a", "s", "u", "a", "l">>,
              <<"b", "e", "t", "a", ",", " ", "i", "n", "a", "c", "t", "i", "v", "e", " ", "s", "i", "n", "c", "e", " ", "2", "0", "1", "8">> >>
      [] field = "Download" ->
           << <<"h", "t", "t", "p", "s", ":", "/", "/", "a", ".", "b", "/", "d">>,
              <<"x", " ", "y">> >>
      [] field = "Platform" ->
           << <<"W", "i", "n", "d", "o", "w", "s", ",", " ", "L", "i", "n", "u", "x">>,
              <<"L", "i", "n", "u", "x", ",", " ", "W", "i", "n", "d", "o", "w", "s">>,
              <<"W", "i", "n", "d", "o", "w", "s", ",", " ", "A", "m", "i", "g", "a">>,
              <<"B", "r", "o", "w", "s", "e", "r">>,
              <<"W", "e", "b">>,
              <<"L", "i", "n", "u", "x", ",", " ", "L", "i", "n", "u", "x">> >>
      [] field = "Keywords" ->
           << <<"t", "o", "o", "l">>,
              <<"x">>,
              <<"(", "x", ")">>,
              <<"x", ",", " ", "a", "c", "t", "i", "o", "n">>,
              <<"t", "o", "o", "l", ",", " ", "<", " ", "a", " ", ">">> >>
      [] field = "Code repository" ->
           << <<"h", "t", "t", "p", "s", ":", "/", "/", "a", ".", "b", "/", "c", ".", "g", "i", "t">>,
              <<"(", "n", "o", "n", "e", ")">>,
              <<"h", "t", "t", "p", "s", ":", "/", "/", "g", "i", "t", "h", "u", "b", ".", "c", "o", "m", "/", "a">>,
              <<"s", "v", "n", ":", "/", "/", "a", ".", "b">>,
              <<"h", "t", "t", "p", "s", ":", "/", "/", "b", "i", "t", "b", "u", "c", "k", "e", "t", ".", "o", "r", "g", "/", "x", "/", "y">>,
              <<"h", "t", "t", "p", "s", ":", "/", "/", "c", "o", "d", "e", ".", "l", "a", "u", "n", "c", "h", "p", "a", "d", ".", "n", "e", "t", "/", "x">>,
              <<"h", "t", "t", "p", "s", ":", "/", "/", "r", "p", "g", ".", "h", "a", "m", "s", "t", "e", "r", "r", "e", "p", "u", "b", "l", "i", "c", ".", "c", "o", "m", "/", "s", "o", "u", "r", "c", "e", "/", "w", "i", "p">>,
              <<"h", "t", "t", "p", "s", ":", "/", "/", "a", ".", "b", "/", "c", ".", "g", "i", "t", ",", " ", "h", "t", "t", "p", "s", ":", "/", "/", "e", "x", "a", "m", "p", "l", "e", ".", "c", "o", "m", "/", "x", " ", "(", "+", ")">>,
              <<"h", "t", "t", "p", "s", ":", "/", "/", "s", "v", "n", ".", "c", "o", "d", "e", ".", "s", "f", ".", "n", "e", "t", "/", "p", "/", "x", "/", "c", "o", "d", "e", "/">>,
              <<"h", "t", "t", "p", ":", "/", "/", "g", "i", "t", "l", "a", "b", ".", "c", "o", "m", "/", "a">>,
              <<"h", "t", "t", "p", "s", ":", "/", "/", "g", "i", "t", "h", "u", "b", ".", "c", "o", "m", "/", "x", "/", "y", ".", "g", "i", "t">>,
              <<"h", "t", "t", "p", "s", ":", "/", "/", "e", "x", "a", "m", "p", "l", "e", ".", "c", "o", "m", "/", "x">>,
              <<"h", "t", "t", "p", "s", ":", "/", "/", "c", "o", "d", "e", ".", "l", "a", "u", "n", "c", "h", "p", "a", "d", ".", "n", "e", "t", "/", "x", ".", "g", "i", "t">> >>
      [] field = "Code language" ->
           << <<"C">>,
              <<"(", "x", ")">>,
              <<"C", ",", " ", "C", "+", "+">>,
              <<"Z", "i", "g">> >>
      [] field = "Code license" ->
           << <<"M", "I", "T">>,
              <<"(", "x", ")">>,
              <<"M", "I", "T", ",", " ", "O", "w", "n">> >>
      [] field = "Build system" ->
           << <<"C", "M", "a", "k", "e">>,
              <<"M", "a", "k", "e", ",", " ", "S", "C", "o", "n", "s">> >>
      [] field = "Developer" ->
           << <<"x">> >>
      [] field = "Foo" ->
           << <<"x">> >>

\* the field names of the entry texts, in document order
field_lists ==
    << <<"Home", "State", "Download", "Platform", "Keywords", "Code repository",
         "Code language", "Code license", "Build system">>,
       <<"Home", "State", "Keywords", "Code repository", "Code language", "Code license">>,
       <<"State", "Keywords", "Code repository", "Code language", "Code license">>,
       <<"Home", "Keywords", "Code repository", "Code language", "Code license">>,
       <<"Home", "State", "Code repository", "Code language", "Code license">>,
       <<"Home", "State", "Keywords", "Code language", "Code license">>,
       <<"Home", "State", "Keywords", "Code repository", "Code license">>,
       <<"Home", "State", "Keywords", "Code repository", "Code language">>,
       <<"Code language", "Home", "State", "Keywords", "Code repository", "Code license">>,
       <<"State", "Home", "Keywords", "Code repository", "Code language", "Code license">>,
       <<"Home", "Home", "State", "Keywords", "Code repository", "Code language",
         "Code license">>,
       <<"Home", "State", "Home", "Keywords", "Code repository", "Code language",
         "Code license">>,
       <<"Home", "State", "Platform", "Platform", "Keywords", "Code repository",
         "Code language", "Code license">>,
       <<"Home", "State", "Keywords", "Code repository", "Code language", "Code license",
         "Foo">>,
       <<"Home", "State", "Keywords", "Code repository", "Code language", "Code license",
         "Developer">>,
       <<"Code language", "State", "Keywords", "Code repository", "Code license">>,
       <<"Home", "Foo", "Keywords", "Code repository", "Code language", "Code license">>,
       << >> >>

\* the first line and the description line of the entry texts
headers ==
    << [name |-> <<"A">>, description |-> <<"d">>],
       [name |-> <<"B">>, description |-> <<"d">>],
       [name |-> <<" ", "A">>, description |-> <<"d">>],
       [name |-> <<"A", " ", "-", " ", "b", "!">>, description |-> <<"d">>],
       [name |-> << >>, description |-> <<"d">>],
       [name |-> <<"A">>, description |-> << >>],
       [name |-> <<"C">>, description |-> <<"d">>] >>

\* the entry text with these field names, in which the lines of one field
\* hold the given raw value and all others the value of a well-formed entry
Content(header, fields, field, raw) ==
    [name |-> header.name,
     description |-> header.description,
     lines |-> [i \in 1..Len(fields) |->
                   [field |-> fields[i],
                    raw |-> IF fields[i] = field THEN raw ELSE raw_values(fields[i])[1]]]]

\* the ways to vary one field of a field list (or none)
Variations(fields) ==
    {[field |-> "", raw |-> << >>]}
    \cup UNION {{[field |-> f, raw |-> r] : r \in Range(raw_values(f))} : f \in Range(fields)}

\* the entry text of the first header and the first field list with the
\* lines of two fields varied
Content2(field1, raw1, field2, raw2) ==
    [Content(headers[1], field_lists[1], field1, raw1) EXCEPT
        !.lines = [i \in 1..Len(field_lists[1]) |->
                      IF field_lists[1][i] = field2
                      THEN [field |-> field2, raw |-> raw2]
                      ELSE @[i]]]

\* entry texts in which a value that draws a warning meets a value that a
\* later check looks at
WarnedContents ==
    {Content2(w.field, w.raw, v.field, v.raw) :
        w \in {[field |-> "Code repository", raw |-> raw_values("Code repository")[3]],
               [field |-> "Code repository", raw |-> raw_values("Code repository")[10]],
               [field |-> "Code language", raw |-> raw_values("Code language")[4]],
               [field |-> "Code license", raw |-> raw_values("Code license")[3]]},
        v \in {[field |-> "Platform", raw |-> r] : r \in Range(raw_values("Platform"))}
               \cup {[field |-> "Keywords", raw |-> r] : r \in Range(raw_values("Keywords"))}}

\* all entry texts: every header, every field list, at most one field varied,
\* and the texts of WarnedContents
AllContents ==
    UNION {{Content(headers[p[1]], field_lists[p[2]], v.field, v.raw) :
               v \in Variations(field_lists[p[2]])}
           : p \in (1..Len(headers)) \X (1..Len(field_lists))}
    \cup WarnedContents

\* the entry texts of the runs over several entries: two well-formed entries
\* and one entry for each way a check fails
PipelineContents ==
    {Content(headers[1], field_lists[1], "", << >>),
     Content(headers[2], field_lists[2], "State", raw_values("State")[3]),
     Content(headers[1], field_lists[3], "", << >>),
     Content(headers[1], field_lists[9], "", << >>),
     Content(headers[1], field_lists[2], "State", raw_values("State")[5]),
     Content(headers[1], field_lists[1], "Platform", raw_values("Platform")[3]),
     Content(headers[1], field_lists[11], "", << >>),
     Content(headers[1], field_lists[2], "Home", raw_values("Home")[2]),
     Content(headers[1], field_lists[2], "State", raw_values("State")[8])}

\* the entry text with these field names, in which the lines of the fields of
\* DOMAIN values hold the raw value given there and all others the value of a
\* well-formed entry
ContentWith(header, fields, values) ==
    [name |-> header.name,
     description |-> header.description,
     lines |-> [i \in 1..Len(fields) |->
                   [field |-> fields[i],
                    raw |-> IF fields[i] \in DOMAIN values THEN values[fields[i]]
                            ELSE raw_values(fields[i])[1]]]]

\* the entry texts of the runs that the statistics are made of: entries that
\* maintenance.parse_entry accepts, with inactive years 2018, 2019 and 2020,
\* with one and with several languages, platforms and build systems, and
\* with and without a Build system line
ConsumerContents ==
    {ContentWith(headers[1], field_lists[1], << >>),
     ContentWith(headers[2], field_lists[2], "State" :> raw_values("State")[13]),
     ContentWith(headers[1], field_lists[2], "State" :> raw_values("State")[11]),
     ContentWith(headers[7], field_lists[2],
                 "State" :> raw_values("State")[11]
                 @@ "Code language" :> raw_values("Code language")[3]),
     ContentWith(headers[2], field_lists[1],
                 "State" :> raw_values("State")[3]
                 @@ "Code language" :> raw_values("Code language")[4]
                 @@ "Platform" :> raw_values("Platform")[6]),
     ContentWith(headers[7], field_lists[1],
                 "Build system" :> raw_values("Build system")[2]
                 @@ "Code license" :> raw_values("Code license")[3])}

\* the entry texts of the runs that present the same records in several
\* orders: accepted entries with different titles, inactive years, languages
\* and repositories, with and without a Download line
OrderContents ==
    {ContentWith(headers[2], field_lists[2], "State" :> raw_values("State")[13]),
     ContentWith(headers[7], field_lists[2],
                 "State" :> raw_values("State")[11]
                 @@ "Code language" :> raw_values("Code language")[3]),
     ContentWith(headers[1], field_lists[2],
                 "Code repository" :> raw_values("Code repository")[11]),
     ContentWith(headers[4], field_lists[1],
                 "State" :> raw_values("State")[3]
                 @@ "Code repository" :> raw_values("Code repository")[7]
                 @@ "Code language" :> raw_values("Code language")[4])}

\* the most entries of a run over several entries
MaxEntries == 3

\* the file names of the entries, in the order the directory lists them
file_names ==
    << <<"a", ".", "m", "d">>,
       <<"b", "-", "2", ".", "m", "d">>,
       <<"c", ".", "m", "d">>,
       <<"d", ".", "m", "d">>,
       <<"a", "-", "b", ".", "m", "d">> >>

\* the one category of the model: its directory and the title of its _toc.md
category_dir == <<"g", "a", "m", "e", "s">>
category_title == <<"G", "a", "m", "e", "s">>

\* the lists of entry texts of at most n entries
RECURSIVE Lists(_, _)
Lists(S, n) ==
    IF n = 0 THEN {<< >>}
    ELSE LET shorter == Lists(S, n - 1)
         IN  shorter \cup {Append(l, c) : l \in {x \in shorter : Len(x) = n - 1}, c \in S}

-----------------------------------------------------------------------------
(* The order of Python str values, list.sort and str.join                  *)

\* ord(ch), for the characters of the texts read and written
code_point(ch) ==
    CASE ch = "\t" -> 9
      [] ch = " " -> 32
      [] ch = "!" -> 33
      [] ch = "\"" -> 34
      [] ch = "#" -> 35
      [] ch = "$" -> 36
      [] ch = "%" -> 37
      [] ch = "&" -> 38
      [] ch = "'" -> 39
      [] ch = "(" -> 40
      [] ch = ")" -> 41
      [] ch = "*" -> 42
      [] ch = "+" -> 43
      [] ch = "," -> 44
      [] ch = "-" -> 45
      [] ch = "." -> 46
      [] ch = "/" -> 47
      [] ch = "0" -> 48
      [] ch = "1" -> 49
      [] ch = "2" -> 50
      [] ch = "3" -> 51
      [] ch = "4" -> 52
      [] ch = "5" -> 53
      [] ch = "6" -> 54
      [] ch = "7" -> 55
      [] ch = "8" -> 56
      [] ch = "9" -> 57
      [] ch = ":" -> 58
      [] ch = ";" -> 59
      [] ch = "<" -> 60
      [] ch = "=" -> 61
      [] ch = ">" -> 62
      [] ch = "?" -> 63
      [] ch = "@" -> 64
      [] ch = "A" -> 65
      [] ch = "B" -> 66
      [] ch = "C" -> 67
      [] ch = "D" -> 68
      [] ch = "E" -> 69
      [] ch = "F" -> 70
      [] ch = "G" -> 71
      [] ch = "H" -> 72
      [] ch = "I" -> 73
      [] ch = "J" -> 74
      [] ch = "K" -> 75
      [] ch = "L" -> 76
      [] ch = "M" -> 77
      [] ch = "N" -> 78
      [] ch = "O" -> 79
      [] ch = "P" -> 80
      [] ch = "Q" -> 81
      [] ch = "R" -> 82
      [] ch = "S" -> 83
      [] ch = "T" -> 84
      [] ch = "U" -> 85
      [] ch = "V" -> 86
      [] ch = "W" -> 87
      [] ch = "X" -> 88
      [] ch = "Y" -> 89
      [] ch = "Z" -> 90
      [] ch = "[" -> 91
      [] ch = "]" -> 93
      [] ch = "^" -> 94
      [] ch = "_" -> 95
      [] ch = "a" -> 97
      [] ch = "b" -> 98
      [] ch = "c" -> 99
      [] ch = "d" -> 100
      [] ch = "e" -> 101
      [] ch = "f" -> 102
      [] ch = "g" -> 103
      [] ch = "h" -> 104
      [] ch = "i" -> 105
      [] ch = "j" -> 106
      [] ch = "k" -> 107
      [] ch = "l" -> 108
      [] ch = "m" -> 109
      [] ch = "n" -> 110
      [] ch = "o" -> 111
      [] ch = "p" -> 112
      [] ch = "q" -> 113
      [] ch = "r" -> 114
      [] ch = "s" -> 115
      [] ch = "t" -> 116
      [] ch = "u" -> 117
      [] ch = "v" -> 118
      [] ch = "w" -> 119
      [] ch = "x" -> 120
      [] ch = "y" -> 121
      [] ch = "z" -> 122
      [] ch = "{" -> 123
      [] ch = "|" -> 124
      [] ch = "}" -> 125
      [] ch = "~" -> 126

\* a < b for two str: the first differing character decides, a proper prefix
\* is smaller
str_less(a, b) ==
    LET n == IF Len(a) < Len(b) THEN Len(a) ELSE Len(b)
        differing == {i \in 1..n : a[i] # b[i]}
        i == CHOOSE d \in differing : \A e \in differing : d <= e
    IN  IF differing = {} THEN Len(a) < Len(b)
        ELSE code_point(a[i]) < code_point(b[i])

\* stable_sort with the items of equal key in the reverse of their order
stable_sort_ties_reversed(seq, before) ==
    LET rank(i) == 1 + Cardinality({j \in 1..Len(seq) :
                           \/ before[j][i]
                           \/ ~before[i][j] /\ j > i})
    IN  [k \in 1..Len(seq) |-> seq[CHOOSE i \in 1..Len(seq) : rank(i) = k]]

\* list.sort with a key: before[i][j] says that the key of item i is ahead of
\* the key of item j; items of equal key keep their order (the sort is stable,
\* also with reverse=True)
stable_sort(seq, before) ==
    LET rank(i) == 1 + Cardinality({j \in 1..Len(seq) :
                           \/ before[j][i]
                           \/ ~before[i][j] /\ j < i})
    IN  [k \in 1..Len(seq) |-> seq[CHOOSE i \in 1..Len(seq) : rank(i) = k]]

\* list.sort() of a list of str
sort_strings(seq) ==
    stable_sort(seq, [i \in 1..Len(seq) |-> [j \in 1..Len(seq) |->
                         str_less(seq[i], seq[j])]])

\* sorted_set without the sort: the distinct items in the order of their
\* first occurrence in the list
first_occurrences(v) ==
    LET at == SelectSeq([i \in 1..Len(v) |-> i],
                        LAMBDA i : \A j \in 1..(i - 1) : v[j] # v[i])
    IN  [k \in 1..Len(at) |-> v[at[k]]]

\* sorted(set(v)) of a list of str
sorted_set(v) ==
    LET S == Range(v)
    IN  [k \in 1..Cardinality(S) |->
            CHOOSE x \in S : Cardinality({y \in S : str_less(y, x)}) = k - 1]

\* list.count(x)
count(v, x) == Cardinality({i \in 1..Len(v) : v[i] = x})

\* sep.join(v)
RECURSIVE join(_, _)
join(v, sep) ==
    IF v = <<>> THEN <<>>
    ELSE IF Len(v) = 1 THEN v[1]
    ELSE v[1] \o sep \o join(Tail(v), sep)

-----------------------------------------------------------------------------
(* The consumers of the record set in tools/maintenance.py.                *)
(*                                                                         *)
(* infos is a dict keyed by the entry path; infos.values() lists the       *)
(* records in insertion order, the order in which they were parsed.        *)

\* facet_values with only the first value of each record taken
RECURSIVE facet_values_first(_, _)
facet_values_first(infois, field) ==
    IF infois = <<>> THEN <<>>
    ELSE (IF Has(Head(infois), field) THEN <<Head(infois)[field][1]>> ELSE <<>>)
         \o facet_values_first(Tail(infois), field)

\* the values of a field over all records that have it, in record order
RECURSIVE facet_values(_, _)
facet_values(infois, field) ==
    IF infois = <<>> THEN <<>>
    ELSE (IF Has(Head(infois), field) THEN Head(infois)[field] ELSE <<>>)
         \o facet_values(Tail(infois), field)

\* the rows of a frequency table: for each distinct value its name and its
\* frequency count / total, kept as the pair of both; sorted by name and then
\* by descending frequency.  The rows are made from a set, in its iteration
\* order, and the first sort, by the names, which are distinct, fixes the
\* order whatever the iteration order was.
frequency_table(values) ==
    LET by_name == sorted_set(values)
        rows == [k \in 1..Len(by_name) |->
                    [name |-> by_name[k],
                     count |-> count(values, by_name[k]),
                     total |-> Len(values)]]
    IN  stable_sort(rows, [i \in 1..Len(rows) |-> [j \in 1..Len(rows) |->
                              rows[i].count > rows[j].count]])

\* the titles of the chosen records, in record order
titles_of(chosen) == [k \in 1..Len(chosen) |-> chosen[k]["title"]]

language_C == <<"C">>
language_Cpp == <<"C", "+", "+">>
build_system_CMake == <<"C", "M", "a", "k", "e">>

popular_code_repositories ==
    << <<"g", "i", "t", "h", "u", "b", ".", "c", "o", "m">>,
       <<"g", "i", "t", "l", "a", "b", ".", "c", "o", "m">>,
       <<"b", "i", "t", "b", "u", "c", "k", "e", "t", ".", "o", "r", "g">>,
       <<"c", "o", "d", "e", ".", "s", "f", ".", "n", "e", "t">>,
       <<"c", "o", "d", "e", ".", "l", "a", "u", "n", "c", "h", "p", "a", "d", ".", "n", "e", "t">> >>

\* 'C' in info['code language'] or 'C++' in info['code language']
c_or_cpp(info) ==
    \/ language_C \in Range(info["code language"])
    \/ language_Cpp \in Range(info["code language"])

\* entries_inactive with the second sort, by the year, left out
entries_inactive_by_title(infois) ==
    LET inactive == SelectSeq(infois, LAMBDA x : Has(x, "inactive"))
        pairs == [k \in 1..Len(inactive) |->
                     <<inactive[k]["title"], inactive[k]["inactive"]>>]
    IN  stable_sort(pairs, [i \in 1..Len(pairs) |-> [j \in 1..Len(pairs) |->
                               str_less(pairs[i][1], pairs[j][1])]])

\* the pairs of title and inactive year of the records that have an inactive
\* year, sorted by the title and then by the year, the greatest year first
entries_inactive(infois) ==
    LET inactive == SelectSeq(infois, LAMBDA x : Has(x, "inactive"))
        pairs == [k \in 1..Len(inactive) |->
                     <<inactive[k]["title"], inactive[k]["inactive"]>>]
        by_title ==
            stable_sort(pairs, [i \in 1..Len(pairs) |-> [j \in 1..Len(pairs) |->
                                   str_less(pairs[i][1], pairs[j][1])]])
    IN  stable_sort(by_title, [i \in 1..Len(pairs) |-> [j \in 1..Len(pairs) |->
                                  str_less(by_title[j][2], by_title[i][2])]])

\* generate_statistics: the exception that ends it, or the content of the
\* statistics page (a percentage x / y * 100 is kept as the pair of x and y;
\* the time stamp and the fixed headings are left out)
generate_statistics(infois) ==
    LET number_entries == Len(infois)
        number_state_beta ==
            Cardinality({i \in 1..Len(infois) : beta \in Range(infois[i]["state"])})
        number_state_mature ==
            Cardinality({i \in 1..Len(infois) : mature \in Range(infois[i]["state"])})
        number_inactive ==
            Cardinality({i \in 1..Len(infois) : Has(infois[i], "inactive")})
        build_systems == facet_values(infois, "build system")
    IN  IF \E i \in 1..Len(infois) : ~Has(infois[i], "state")
        THEN [raised |-> "KeyError", error |-> "state", out |-> << >>]
        ELSE IF number_entries = 0
        THEN [raised |-> "ZeroDivisionError", error |-> "x / number_entries", out |-> << >>]
        ELSE IF \E i \in 1..Len(infois) :
                    /\ ~Has(infois[i], "code language")
                    /\ \/ ~Has(infois[i], "build system")
                       \/ build_system_CMake \in Range(infois[i]["build system"])
        THEN [raised |-> "KeyError", error |-> "code language", out |-> << >>]
        ELSE [raised |-> "none", error |-> "none",
              out |-> [number_entries |-> number_entries,
                       number_state_beta |-> number_state_beta,
                       number_state_mature |-> number_state_mature,
                       number_inactive |-> number_inactive,
                       entries_inactive |-> entries_inactive(infois),
                       languages |-> frequency_table(facet_values(infois, "code language")),
                       without_license |->
                           sort_strings(titles_of(SelectSeq(infois,
                               LAMBDA x : ~Has(x, "code license")))),
                       licenses |-> frequency_table(facet_values(infois, "code license")),
                       keywords |-> frequency_table(facet_values(infois, "keywords")),
                       without_download_or_play |->
                           sort_strings(titles_of(SelectSeq(infois,
                               LAMBDA x : ~Has(x, "download") /\ ~Has(x, "play")))),
                       not_popular |->
                           sort_strings(titles_of(SelectSeq(infois,
                               LAMBDA x :
                                   /\ Has(x, "code repository")
                                   /\ ~\E r \in Range(x["code repository"]) :
                                          \E p \in Range(popular_code_repositories) :
                                              contains(r, p)))),
                       build_systems_available |-> <<Len(build_systems), Len(infois)>>,
                       build_systems |-> frequency_table(build_systems),
                       c_cpp_project_without_build_system |->
                           sort_strings(titles_of(SelectSeq(infois,
                               LAMBDA x : ~Has(x, "build system") /\ c_or_cpp(x)))),
                       c_cpp_project_not_cmake |->
                           sort_strings(titles_of(SelectSeq(infois,
                               LAMBDA x :
                                   /\ Has(x, "build system")
                                   /\ build_system_CMake \in Range(x["build system"])
                                   /\ c_or_cpp(x)))),
                       platforms |-> frequency_table(facet_values(infois, "platform"))]]

\* the pieces of the cells of the table that export_json writes
game_home == <<" ", "(", "<", "a", " ", "h", "r", "e", "f", "=", "\"">>
game_entry ==
    <<"\"", ">", "h", "o", "m", "e", "<", "/", "a", ">", ",", " ", "<", "a",
      " ", "h", "r", "e", "f", "=", "\"", "h", "t", "t", "p", "s", ":", "/",
      "/", "g", "i", "t", "h", "u", "b", ".", "c", "o", "m", "/", "T", "r",
      "i", "l", "a", "r", "i", "o", "n", "/", "o", "p", "e", "n", "s", "o",
      "u", "r", "c", "e", "g", "a", "m", "e", "s", "/", "b", "l", "o", "b",
      "/", "m", "a", "s", "t", "e", "r", "/", "g", "a", "m", "e", "s", "/">>
game_end == <<"\"", ">", "e", "n", "t", "r", "y", "<", "/", "a", ">", ")">>
link_start == <<"<", "a", " ", "h", "r", "e", "f", "=", "\"">>
link_end == <<"\"", ">", "L", "i", "n", "k", "<", "/", "a", ">">>
source_end == <<"\"", ">", "S", "o", "u", "r", "c", "e", "<", "/", "a", ">">>
state_active == <<"a", "c", "t", "i", "v", "e">>

\* the first list item of a field that is there and not empty, as a list
first_of(info, field) ==
    IF Has(info, field) /\ info[field] # <<>> THEN <<info[field][1]>> ELSE <<>>

\* the row of one record (the Description cell, the shortened description,
\* is left out)
export_row(info) ==
    [game |-> info["title"] \o game_home \o info["home"][1] \o game_entry
              \o info["path"] \o game_end,
     download |-> IF first_of(info, "download") # <<>>
                  THEN link_start \o info["download"][1] \o link_end
                  ELSE <<>>,
     category |-> info["category"],
     state |-> info["state"][1] \o <<" ", "/", " ">>
               \o (IF Has(info, "inactive")
                   THEN phrase \o info["inactive"]
                   ELSE state_active),
     keywords |-> IF Has(info, "keywords") THEN join(info["keywords"], <<",", " ">>)
                  ELSE <<>>,
     source |-> join((IF first_of(info, "code repository") # <<>>
                      THEN <<link_start \o info["code repository"][1] \o source_end>>
                      ELSE <<>>)
                     \o (IF Has(info, "code language")
                         THEN <<join(info["code language"], <<",", " ">>)>>
                         ELSE <<>>)
                     \o first_of(info, "code license"),
                     <<" ", "-", " ">>)]

\* export_json: the exception that ends it (the first record without home or
\* without state raises KeyError), or the rows it writes, sorted by the Game
\* cell
export_json(infois) ==
    LET bad == {i \in 1..Len(infois) :
                   ~Has(infois[i], "home") \/ ~Has(infois[i], "state")}
        first == CHOOSE i \in bad : \A k \in bad : i <= k
    IN  IF bad # {}
        THEN [raised |-> "KeyError",
              error |-> IF ~Has(infois[first], "home") THEN "home" ELSE "state",
              out |-> << >>]
        ELSE [raised |-> "none", error |-> "none",
              out |-> LET rows == [i \in 1..Len(infois) |-> export_row(infois[i])]
                      IN  stable_sort(rows,
                              [i \in 1..Len(rows) |-> [j \in 1..Len(rows) |->
                                  str_less(rows[i].game, rows[j].game)]])]

http_prefix == <<"h", "t", "t", "p", ":", "/", "/">>

git_services ==
    << <<"h", "t", "t", "p", "s", ":", "/", "/", "g", "i", "t", ".", "t", "u", "x", "f", "a", "m", "i", "l", "y", ".", "o", "r", "g", "/">>,
       <<"h", "t", "t", "p", ":", "/", "/", "g", "i", "t", ".", "p", "o", "n", "d", ".", "s", "u", "b", ".", "o", "r", "g", "/">>,
       <<"h", "t", "t", "p", "s", ":", "/", "/", "g", "i", "t", "o", "r", "i", "o", "u", "s", ".", "o", "r", "g", "/">>,
       <<"h", "t", "t", "p", "s", ":", "/", "/", "g", "i", "t", ".", "c", "o", "d", "e", ".", "s", "f", ".", "n", "e", "t", "/", "p", "/">> >>

\* git_repo(repo) is not None
git_repo(repo) ==
    \/ /\ startswith(repo, https_prefix) \/ startswith(repo, http_prefix)
       /\ endswith(repo, git_suffix)
    \/ \E i \in 1..Len(git_services) : startswith(repo, git_services[i])

svn_sf_prefix == <<"h", "t", "t", "p", "s", ":", "/", "/", "s", "v", "n", ".", "c", "o", "d", "e", ".", "s", "f", ".", "n", "e", "t", "/", "p", "/">>
svn_sf_suffix == <<"/", "c", "o", "d", "e", "/">>
svn_uktrainsim_prefix == <<"h", "t", "t", "p", ":", "/", "/", "s", "v", "n", ".", "u", "k", "t", "r", "a", "i", "n", "s", "i", "m", ".", "c", "o", "m", "/", "s", "v", "n", "/">>
svn_hamsterrepublic ==
    <<"h", "t", "t", "p", "s", ":", "/", "/", "r", "p", "g", ".", "h", "a",
      "m", "s", "t", "e", "r", "r", "e", "p", "u", "b", "l", "i", "c", ".",
      "c", "o", "m", "/", "s", "o", "u", "r", "c", "e", "/", "w", "i", "p">>

\* svn_repo(repo) is not None.  The last test is `repo is '<literal>'`, the
\* identity of two str objects: whether a str equal to the literal is the same
\* object is up to the Python implementation, so the caller gives the outcome
\* (same_object) for that case.
svn_repo(repo, same_object) ==
    \/ startswith(repo, svn_sf_prefix) /\ endswith(repo, svn_sf_suffix)
    \/ startswith(repo, svn_uktrainsim_prefix)
    \/ repo = svn_hamsterrepublic /\ same_object

bitbucket_prefix == <<"h", "t", "t", "p", "s", ":", "/", "/", "b", "i", "t", "b", "u", "c", "k", "e", "t", ".", "o", "r", "g", "/">>
hg_prefix == <<"h", "t", "t", "p", ":", "/", "/", "h", "g", ".">>

\* hg_repo(repo) is not None
hg_repo(repo) ==
    \/ startswith(repo, bitbucket_prefix) /\ ~endswith(repo, git_suffix)
    \/ startswith(repo, hg_prefix)

launchpad_prefix == <<"h", "t", "t", "p", "s", ":", "/", "/", "c", "o", "d", "e", ".", "l", "a", "u", "n", "c", "h", "p", "a", "d", ".", "n", "e", "t", "/">>

\* bzr_repo(repo) is not None
bzr_repo(repo) == startswith(repo, launchpad_prefix)

\* system_of with the four tests in the reverse order
system_of_reversed(repo, same_object) ==
    IF startswith(repo, launchpad_prefix) THEN "bzr"
    ELSE IF \/ startswith(repo, bitbucket_prefix) /\ ~endswith(repo, git_suffix)
            \/ startswith(repo, hg_prefix) THEN "hg"
    ELSE IF \/ startswith(repo, svn_sf_prefix) /\ endswith(repo, svn_sf_suffix)
            \/ startswith(repo, svn_uktrainsim_prefix)
            \/ repo = svn_hamsterrepublic /\ same_object THEN "svn"
    ELSE IF \/ /\ startswith(repo, https_prefix) \/ startswith(repo, http_prefix)
               /\ endswith(repo, git_suffix)
            \/ \E i \in 1..Len(git_services) : startswith(repo, git_services[i])
    THEN "git"
    ELSE "none"

\* the system a repository is filed under: the first of git, svn, hg, bzr whose
\* test it passes, "none" when it passes none
system_of(repo, same_object) ==
    IF git_repo(repo) THEN "git"
    ELSE IF svn_repo(repo, same_object) THEN "svn"
    ELSE IF hg_repo(repo) THEN "hg"
    ELSE IF bzr_repo(repo) THEN "bzr"
    ELSE "none"

additional_marker == <<"(", "+", ")">>

\* the repositories of a raw Code repository value that are looked at: the
\* first piece between commas and each later piece with the marker "(+)",
\* each without its parentheses and stripped
retained_repos(raw) ==
    IF raw = <<>> THEN <<>>
    ELSE LET repos == split(raw, <<",">>)
             kept == <<repos[1]>>
                     \o SelectSeq(Tail(repos), LAMBDA x : contains(x, additional_marker))
         IN  [k \in 1..Len(kept) |-> strip(re_sub_parenthesis(kept[k]))]

\* the retained repositories of all records that are filed under a system, in
\* record order
RECURSIVE repos_under(_, _, _)
repos_under(infois, system, same_object) ==
    IF infois = <<>> THEN <<>>
    ELSE (IF Has(Head(infois), "code repository-raw")
          THEN SelectSeq(retained_repos(Head(infois)["code repository-raw"]),
                         LAMBDA r : system_of(r, same_object) = system)
          ELSE <<>>)
         \o repos_under(Tail(infois), system, same_object)

\* update_primary_code_repositories: the lists written to archives.json and
\* the list unconsumed_entries, which holds the title and the raw value of
\* each record with a Code repository line of which no repository was filed
update_primary_code_repositories(infois, same_object) ==
    LET unconsumed ==
            SelectSeq(infois, LAMBDA info :
                /\ Has(info, "code repository-raw")
                /\ \A r \in Range(retained_repos(info["code repository-raw"])) :
                       system_of(r, same_object) = "none")
    IN  [primary_repos |->
             [git |-> sorted_set(repos_under(infois, "git", same_object)),
              svn |-> sorted_set(repos_under(infois, "svn", same_object)),
              hg |-> sorted_set(repos_under(infois, "hg", same_object)),
              bzr |-> sorted_set(repos_under(infois, "bzr", same_object))],
         unconsumed_entries |->
             [k \in 1..Len(unconsumed) |->
                 <<unconsumed[k]["title"], unconsumed[k]["code repository-raw"]>>]]

-----------------------------------------------------------------------------
(* The runs                                                                *)

VARIABLES
    program,      \* "osg": assemble_infos of tools/utils/osg.py;
                  \* "maintenance": the main block of tools/maintenance.py
    entries,      \* the entry files: [file, content], in directory order
    infos,        \* the records assembled so far, in entry order
    printed,      \* for each entry parsed, the messages printed meanwhile
    pc,           \* the function the run is in, "done" or "failed"
    exception,    \* the exception that ended the run: [class, error, where]
    statistics,   \* what generate_statistics wrote
    db,           \* what export_json wrote
    archives      \* what update_primary_code_repositories made

vars == <<program, entries, infos, printed, pc, exception, statistics, db, archives>>

NoException == [class |-> "none", error |-> "none", where |-> "none"]

Entry(i, content) == [file |-> file_names[i], content |-> content]

Start(contents) ==
    /\ program \in {"osg", "maintenance"}
    /\ entries \in {[i \in 1..Len(l) |-> Entry(i, l[i])] : l \in contents}
    /\ infos = << >>
    /\ printed = << >>
    /\ pc = "assemble_infos"
    /\ exception = NoException
    /\ statistics = << >>
    /\ db = << >>
    /\ archives = << >>

\* runs over up to MaxEntries entries
Init == Start(Lists(PipelineContents, MaxEntries))

\* runs over one entry, of every text
InitParse == Start({<<c>> : c \in AllContents})

\* runs over up to MaxEntries entries that the statistics are made of
InitConsumers == Start(Lists(ConsumerContents, MaxEntries))

\* runs over up to MaxEntries entries that come in several orders
InitOrders == Start(Lists(OrderContents, MaxEntries))

\* an exception leaves the running function and ends the run
Fail(class, error) ==
    /\ pc' = "failed"
    /\ exception' = [class |-> class, error |-> error, where |-> pc]

md_suffix == <<".", "m", "d">>

\* the warning of osg.assemble_infos about a file name that is neither the
\* canonical name of the entry nor that name with a two-character extension
osg_file_warnings(entry, name) ==
    LET canonical_file_name == canonical_entry_name(name) \o md_suffix
    IN  IF /\ canonical_file_name # entry
           /\ canonical_file_name # SubSeq(entry, 1, Len(entry) - 5) \o md_suffix
        THEN <<"Warning: file should be">>
        ELSE <<>>

\* one iteration of the loop of osg.assemble_infos
OsgAssemble ==
    /\ program = "osg"
    /\ pc = "assemble_infos"
    /\ Len(infos) < Len(entries)
    /\ LET entry == entries[Len(infos) + 1]
           r == osg_parse_entry(entry.content)
       IN  IF r.raised # "none"
           THEN /\ Fail(r.raised, r.error)
                /\ printed' = Append(printed, r.printed)
                /\ UNCHANGED infos
           ELSE /\ printed' = Append(printed,
                                     r.printed \o osg_file_warnings(entry.file, r.info["name"]))
                /\ infos' = Append(infos, Store(r.info, "file", entry.file))
                /\ UNCHANGED <<pc, exception>>
    /\ UNCHANGED <<program, entries, statistics, db, archives>>

\* osg.assemble_infos returns infos
OsgReturn ==
    /\ program = "osg"
    /\ pc = "assemble_infos"
    /\ Len(infos) = Len(entries)
    /\ pc' = "done"
    /\ UNCHANGED <<program, entries, infos, printed, exception, statistics, db, archives>>

\* os.path.basename(entry_path)[:-3]
cut_md(file) == SubSeq(file, 1, Len(file) - 3)

\* one iteration of the inner loop of maintenance.assemble_infos
MaintenanceAssemble ==
    /\ program = "maintenance"
    /\ pc = "assemble_infos"
    /\ Len(infos) < Len(entries)
    /\ LET entry == entries[Len(infos) + 1]
           r == maintenance_parse_entry(entry.content)
           info1 == Store(r.info, "category", category_title)
           info2 == Store(info1, "file", cut_md(entry.file))
           info3 == Store(info2, "path", category_dir \o <<"/">> \o entry.file)
       IN  /\ printed' = Append(printed, r.printed)
           /\ IF r.raised # "none"
              THEN Fail(r.raised, r.error) /\ UNCHANGED infos
              ELSE /\ infos' = Append(infos, info3)
                   /\ UNCHANGED <<pc, exception>>
    /\ UNCHANGED <<program, entries, statistics, db, archives>>

\* maintenance.assemble_infos returns and the main block goes on; of the
\* functions it calls, update_readme, update_category_tocs and
\* check_template_leftovers read and write files only and read no field of a
\* record that may be missing, so the run goes through them unchanged
MaintenanceReturn ==
    /\ program = "maintenance"
    /\ pc = "assemble_infos"
    /\ Len(infos) = Len(entries)
    /\ pc' = "generate_statistics"
    /\ UNCHANGED <<program, entries, infos, printed, exception, statistics, db, archives>>

GenerateStatistics ==
    /\ pc = "generate_statistics"
    /\ LET r == generate_statistics(infos)
       IN  IF r.raised # "none"
           THEN Fail(r.raised, r.error) /\ UNCHANGED statistics
           ELSE /\ statistics' = r.out
                /\ pc' = "export_json"
                /\ UNCHANGED exception
    /\ UNCHANGED <<program, entries, infos, printed, db, archives>>

ExportJson ==
    /\ pc = "export_json"
    /\ LET r == export_json(infos)
       IN  IF r.raised # "none"
           THEN Fail(r.raised, r.error) /\ UNCHANGED db
           ELSE /\ db' = r.out
                /\ pc' = "update_primary_code_repositories"
                /\ UNCHANGED exception
    /\ UNCHANGED <<program, entries, infos, printed, statistics, archives>>

\* update_primary_code_repositories(); the outcome of its identity test of two
\* str objects is open
UpdatePrimaryCodeRepositories ==
    /\ pc = "update_primary_code_repositories"
    /\ \E same_object \in BOOLEAN :
           archives' = update_primary_code_repositories(infos, same_object)
    /\ pc' = "done"
    /\ UNCHANGED <<program, entries, infos, printed, exception, statistics, db>>

Next ==
    \/ OsgAssemble
    \/ OsgReturn
    \/ MaintenanceAssemble
    \/ MaintenanceReturn
    \/ GenerateStatistics
    \/ ExportJson
    \/ UpdatePrimaryCodeRepositories

Spec == Init /\ [][Next]_vars

SpecParse == InitParse /\ [][Next]_vars

SpecConsumers == InitConsumers /\ [][Next]_vars

SpecOrders == InitOrders /\ [][Next]_vars

-----------------------------------------------------------------------------
(* What a run shows of the parse of each entry                             *)

\* the entries parsed so far
Parsed == 1..Len(printed)

\* the errors after which maintenance.parse_entry returns the partial record
reject_errors ==
    {"Essential field missing", "either misspelled or in wrong order",
     "Unknown state tage", "State must be one of", "invalid platform tag"}

\* how the parse of entry i ended: the exception that left parse_entry (the
\* entries are parsed in order and the first exception ends the run, so it is
\* the entry after the last record) or the error printed before it returned
Outcome(i) ==
    IF i > Len(infos)
    THEN [class |-> exception.class, error |-> exception.error]
    ELSE IF \E e \in reject_errors : ("Error: " \o e) \in Range(printed[i])
    THEN [class |-> "none",
          error |-> CHOOSE e \in reject_errors : ("Error: " \o e) \in Range(printed[i])]
    ELSE [class |-> "none", error |-> "none"]

\* entry i was parsed and passed every check
Accepted(i) == i \in Parsed /\ Outcome(i) = [class |-> "none", error |-> "none"]

\* the first line and the description line were found
Tokenized(content) == content.name # << >> /\ content.description # << >>

ValidFields == IF program = "osg" THEN osg_valid_fields ELSE maintenance_valid_fields

EssentialFields ==
    IF program = "osg" THEN osg_essential_fields ELSE maintenance_essential_fields

ValidPlatforms ==
    IF program = "osg" THEN osg_valid_platforms ELSE maintenance_valid_platforms

\* the position of a member in a canonical list
Rank(valid, x) == CHOOSE k \in 1..Len(valid) : valid[k] = x

\* every item belongs to the canonical list and none comes after an item of
\* higher rank
Ordered(valid, items) ==
    /\ \A i \in 1..Len(items) : items[i] \in Range(valid)
    /\ \A i \in 1..Len(items) : \A j \in i..Len(items) :
           Rank(valid, items[i]) <= Rank(valid, items[j])

\* the class of a record-level rejection: osg.parse_entry raises RuntimeError,
\* maintenance.parse_entry prints the error and returns
RejectClass == IF program = "osg" THEN "RuntimeError" ELSE "none"

-----------------------------------------------------------------------------
(* C1 *)

\* C1: every record that parse_entry accepts has exactly one of the state
\* tokens beta and mature; a state list with both and a state list with neither
\* are rejected.
C1_StateExclusive ==
    \A i \in 1..Len(infos) :
        Accepted(i) =>
            /\ Has(infos[i], "state")
            /\ (beta \in Range(infos[i]["state"])) # (mature \in Range(infos[i]["state"]))

-----------------------------------------------------------------------------
(* C2 *)

\* C2: every record accepted by the strict parse_entry has a non-empty decoded
\* list for each of the six essential fields.
C2_EssentialDecoded ==
    program = "osg" =>
        \A i \in 1..Len(infos) : \A k \in 1..Len(osg_essential_fields) :
            /\ Has(infos[i], lower(osg_essential_fields[k]))
            /\ infos[i][lower(osg_essential_fields[k])] # << >>

-----------------------------------------------------------------------------
(* C3 *)

\* the record of an entry text when every check passes
WellFormed(content) ==
    IF program = "osg"
    THEN osg_parse_entry(content).raised = "none"
    ELSE /\ maintenance_parse_entry(content).raised = "none"
         /\ maintenance_parse_entry(content).error = "none"

\* C3: a record that fails tokenizing or validation does not stop
\* assemble_infos: once assemble_infos is over, every well-formed entry of the
\* sequence, before and after a bad one, has its record in the record set.
C3_BatchIsolation ==
    pc # "assemble_infos" =>
        \A i \in 1..Len(entries) :
            WellFormed(entries[i].content) =>
                \E j \in 1..Len(infos) :
                    infos[j]["file"] = (IF program = "osg" THEN entries[i].file
                                        ELSE cut_md(entries[i].file))

-----------------------------------------------------------------------------
(* C4 *)

\* C4: when the record set holds a partial record that the lenient parse_entry
\* returned after a failed check, generate_statistics, export_json and
\* update_primary_code_repositories still run to completion.
C4_ConsumersComplete ==
    (/\ program = "maintenance"
     /\ \E i \in 1..Len(infos) : Outcome(i).error # "none")
    => exception.where \notin
           {"generate_statistics", "export_json", "update_primary_code_repositories"}

-----------------------------------------------------------------------------
(* C5 *)

\* C5 as stated: parse_entry accepts a field list only if it is in canonical
\* order, and any other list is rejected with the misordering error.
C5_Original ==
    \A i \in Parsed :
        LET content == entries[i].content
            fields == find_fields(content)
        IN  Tokenized(content) =>
                /\ Accepted(i) => Ordered(ValidFields, fields)
                /\ ~Ordered(ValidFields, fields) =>
                       Outcome(i) = [class |-> RejectClass,
                                     error |-> "either misspelled or in wrong order"]

\* C5 (amended): parse_entry accepts a field list only if every name is in the
\* canonical list and none comes after a name of higher rank; any other list
\* is rejected, with the misordering error when it holds every essential field
\* and with the missing-essential-field error otherwise (that check comes
\* first).
C5_FieldOrder ==
    \A i \in Parsed :
        LET content == entries[i].content
            fields == find_fields(content)
            complete == Range(EssentialFields) \subseteq Range(fields)
        IN  Tokenized(content) =>
                /\ Accepted(i) => Ordered(ValidFields, fields)
                /\ (~Ordered(ValidFields, fields) /\ complete) =>
                       Outcome(i) = [class |-> RejectClass,
                                     error |-> "either misspelled or in wrong order"]
                /\ (~Ordered(ValidFields, fields) /\ ~complete) =>
                       Outcome(i) = [class |-> RejectClass,
                                     error |-> "Essential field missing"]

\* an entry with Code language before Home and every essential field was
\* rejected with the misordering error
C5_Witness ==
    \E i \in Parsed :
        /\ Tokenized(entries[i].content)
        /\ find_fields(entries[i].content) # << >>
        /\ find_fields(entries[i].content)[1] = "Code language"
        /\ Range(EssentialFields) \subseteq Range(find_fields(entries[i].content))
        /\ Outcome(i).error = "either misspelled or in wrong order"

-----------------------------------------------------------------------------
(* C6 *)

\* some field name occurs twice
Repeated(fields) ==
    \E i \in 1..Len(fields) : \E j \in (i + 1)..Len(fields) : fields[i] = fields[j]

\* C6: a record in which a field name occurs twice, and which the presence
\* check and the order scan let through, is rejected with a duplicate-field
\* error as a record-level rejection, in the strict and in the lenient parser.
C6_DuplicateRejected ==
    \A i \in Parsed :
        LET content == entries[i].content
            fields == find_fields(content)
        IN  (/\ Tokenized(content)
             /\ Range(EssentialFields) \subseteq Range(fields)
             /\ Ordered(ValidFields, fields)
             /\ Repeated(fields))
            => /\ Outcome(i).class = RejectClass
               /\ Outcome(i).error # "none"
               /\ program = "osg" => Outcome(i).error = "exist multiple times"

-----------------------------------------------------------------------------
(* C7 *)

\* the separator the program splits a raw value on
Separator == IF program = "osg" THEN <<",", " ">> ELSE <<",">>

\* the decoded State value of an entry text that has one State line
StateTokens(content) == decode(find_values(content, "State")[1], Separator)

\* the errors of the checks that come before the state check
EarlierErrors ==
    {"Name not found", "Description not found", "assert title", "assert description",
     "Essential field missing", "either misspelled or in wrong order",
     "exist multiple times", "assert len(matches) == 1", "Essential field empty",
     "state"}

\* the text after the prefix of an inactivity marker
AfterPhrase(t) == DropFirst(t, Len(phrase))

\* the well-formed entry texts with the three state values that are to pass
C7_Examples ==
    {Content(headers[h], field_lists[k], "State", raw_values("State")[r]) :
        h \in {1, 2}, k \in {1, 2}, r \in {1, 2, 3}}

\* C7 as stated: every state token of an accepted record is beta, mature or
\* the prefix "inactive since " followed by a year token (here: by some text
\* at least); a record with any other state token is rejected with the
\* unknown-state-tag error.
C7_Original ==
    program = "osg" =>
        \A i \in 1..Len(infos) : \A t \in Range(infos[i]["state"]) :
            \/ t = beta
            \/ t = mature
            \/ startswith(t, phrase) /\ AfterPhrase(t) # << >>

\* C7 (amended): every state token of a record accepted by the strict parser
\* is beta, mature or starts with the prefix "inactive since " (the text after
\* the prefix is not checked and may be empty); a record that reaches the state
\* check with any other token is rejected with the unknown-state-tag error;
\* the values "beta", "mature" and "mature, inactive since 2019" are accepted,
\* the last with the inactive year "2019".
C7_StateTokens ==
    program = "osg" =>
        \A i \in Parsed :
            LET content == entries[i].content
            IN  /\ Accepted(i) =>
                       \A t \in Range(infos[i]["state"]) :
                           t = beta \/ t = mature \/ startswith(t, phrase)
                /\ (/\ Outcome(i).error \notin EarlierErrors
                    /\ \E t \in Range(StateTokens(content)) :
                           t # beta /\ t # mature /\ ~startswith(t, phrase))
                   => Outcome(i) = [class |-> "RuntimeError", error |-> "Unknown state tage"]
                /\ content \in C7_Examples =>
                       /\ Accepted(i)
                       /\ infos[i]["state"] = StateTokens(content)
                       /\ StateTokens(content) = <<mature, phrase \o <<"2", "0", "1", "9">> >>
                              => infos[i]["inactive"] = <<"2", "0", "1", "9">>

\* the strict parser rejected the state value "mature, casual" with the
\* unknown-state-tag error
C7_Witness ==
    /\ program = "osg"
    /\ \E i \in Parsed :
           /\ Outcome(i) = [class |-> "RuntimeError", error |-> "Unknown state tage"]
           /\ StateTokens(entries[i].content) = <<mature, <<"c", "a", "s", "u", "a", "l">> >>

-----------------------------------------------------------------------------
(* C8 *)

\* the inactivity markers among the state tokens
Markers(tokens) == SelectSeq(tokens, LAMBDA t : startswith(t, phrase))

\* C8: an accepted record has at most one inactivity marker, its inactive year
\* is present exactly if it has one and is then the text after the prefix, and
\* a state list with two markers is rejected as a record-level error like any
\* other state violation.
C8_InactivityMarker ==
    \A i \in Parsed :
        LET content == entries[i].content
        IN  /\ Accepted(i) =>
                   /\ Len(Markers(infos[i]["state"])) <= 1
                   /\ Has(infos[i], "inactive") <=> Len(Markers(infos[i]["state"])) = 1
                   /\ Has(infos[i], "inactive") =>
                          infos[i]["inactive"] = AfterPhrase(Markers(infos[i]["state"])[1])
            /\ (/\ Outcome(i).error \notin EarlierErrors
                /\ Len(Markers(StateTokens(content))) >= 2)
               => /\ Outcome(i).class = RejectClass
                  /\ Outcome(i).error # "none"

-----------------------------------------------------------------------------
(* C9 *)

\* the decoded values of the URL fields of a record
UrlValues(info) == Range(urls_of(info, url_fields))

\* C9 as stated: in every record accepted by the strict parser each value of
\* home, download, play and code repository starts with an allowed prefix and
\* holds no whitespace.
C9_Original ==
    program = "osg" =>
        \A i \in 1..Len(infos) : \A url \in UrlValues(infos[i]) :
            /\ \E p \in Range(osg_url_prefixes) : startswith(url, p)
            /\ \A k \in 1..Len(url) : url[k] \notin Whitespace

\* the decoded values of the URL fields of an entry text whose fields each
\* occur once
UrlValuesOf(content) ==
    UNION {Range(decode(content.lines[k].raw, <<",", " ">>)) :
              k \in {n \in 1..Len(content.lines) :
                        content.lines[n].field \in
                            {"Home", "Download", "Play", "Code repository"}}}

\* C9 (amended): in every record accepted by the strict parser each value of
\* home, download, play and code repository starts with an allowed prefix and
\* holds no space character (other whitespace, such as a tab, is not looked
\* for); a record with a value that violates this is rejected.
C9_UrlFields ==
    program = "osg" =>
        \A i \in Parsed :
            /\ Accepted(i) =>
                   \A url \in UrlValues(infos[i]) :
                       /\ \E p \in Range(osg_url_prefixes) : startswith(url, p)
                       /\ \A k \in 1..Len(url) : url[k] # " "
            /\ (/\ Outcome(i).error \notin EarlierErrors
                /\ \E url \in UrlValuesOf(entries[i].content) :
                       \/ \A p \in Range(osg_url_prefixes) : ~startswith(url, p)
                       \/ \E k \in 1..Len(url) : url[k] = " ")
               => Outcome(i).class # "none"

\* the strict parser rejected a Home value for the space in it
C9_Witness ==
    /\ program = "osg"
    /\ \E i \in Parsed :
           /\ \E url \in UrlValuesOf(entries[i].content) :
                  /\ startswith(url, https_prefix)
                  /\ \E k \in 1..Len(url) : url[k] = " "
           /\ Outcome(i) = [class |-> "RuntimeError", error |-> "URL contains a space"]

-----------------------------------------------------------------------------
(* C10 *)

\* C10 as stated: in every accepted record with a platform field, of either
\* parser, each value is a valid platform and the values are in canonical
\* order.
C10_Original ==
    \A i \in 1..Len(infos) :
        (Accepted(i) /\ Has(infos[i], "platform"))
        => Ordered(ValidPlatforms, infos[i]["platform"])

\* the decoded Platform value of an entry text with one Platform line
PlatformTokens(content) == decode(find_values(content, "Platform")[1], Separator)

\* C10 (amended): in every record with a platform field that the strict parser
\* accepts, each value is a valid platform and the values are in canonical
\* order (the forward-cursor scan of the field names), and a violation
\* rejects; the lenient parser checks only that each value is in its set of
\* valid platforms, not the order: it accepts the values in any order and
\* reports a value outside the set.
C10_PlatformOrder ==
    \A i \in Parsed :
        LET content == entries[i].content
        IN  /\ (program = "osg" /\ Accepted(i) /\ Has(infos[i], "platform"))
               => Ordered(osg_valid_platforms, infos[i]["platform"])
            /\ (/\ program = "osg"
                /\ Outcome(i).error \notin EarlierErrors
                /\ "Platform" \in Range(find_fields(content))
                /\ ~Ordered(osg_valid_platforms, PlatformTokens(content)))
               => Outcome(i).class # "none"
            /\ (program = "maintenance" /\ Accepted(i) /\ Has(infos[i], "platform"))
               => Range(infos[i]["platform"]) \subseteq Range(maintenance_valid_platforms)
            /\ (/\ program = "maintenance"
                /\ Outcome(i).error \notin EarlierErrors
                /\ "Platform" \in Range(find_fields(content))
                /\ ~(Range(PlatformTokens(content)) \subseteq Range(maintenance_valid_platforms)))
               => ~Accepted(i)

\* the lenient parser accepted the platforms Linux, Windows, which are in the
\* order of neither platform list
C10_Witness ==
    /\ program = "maintenance"
    /\ \E i \in 1..Len(infos) :
           /\ Accepted(i)
           /\ Has(infos[i], "platform")
           /\ infos[i]["platform"] = <<osg_valid_platforms[2], osg_valid_platforms[1]>>

-----------------------------------------------------------------------------
(* C11 *)

\* the warnings of the checks on the repository hosts and on the vocabulary
AdvisoryWarnings ==
    {"Warning: Repo should start with https://", "Warning: Repo should end on .git",
     "Warning: Language is not a known language",
     "Warning: License is not a known license"}

\* the parse of entry i printed one of these warnings
Warned(i) == \E w \in AdvisoryWarnings : w \in Range(printed[i])

AdvisoryFields == {"Code repository", "Code language", "Code license"}

\* the entry text with the values these checks look at replaced by values that
\* draw no warning
Quiet(content) ==
    [content EXCEPT
        !.lines = [k \in 1..Len(content.lines) |->
                      IF content.lines[k].field \in AdvisoryFields
                      THEN [field |-> content.lines[k].field,
                            raw |-> raw_values(content.lines[k].field)[1]]
                      ELSE content.lines[k]]]

\* C11: the checks on the repository hosts and on the known languages and
\* licenses only print warnings: an entry that draws such a warning in the
\* strict parser ends as the same entry with unwarned values does (accepted, or
\* rejected with the same error), and an accepted record holds the same fields,
\* with the warned values decoded as they are.
C11_AdvisoryNeverReject ==
    \A i \in Parsed :
        (program = "osg" /\ Warned(i)) =>
            LET content == entries[i].content
                q == osg_parse_entry(Quiet(content))
                advisory == {lower(f) : f \in AdvisoryFields}
                           \cup {lower(f) \o "-raw" : f \in AdvisoryFields}
            IN  /\ \A w \in AdvisoryWarnings : w \notin Range(q.printed)
                /\ Outcome(i).class = q.raised
                /\ Outcome(i).error = q.error
                /\ i <= Len(infos) =>
                       /\ DOMAIN infos[i] = DOMAIN q.info \cup {"file"}
                       /\ \A k \in DOMAIN q.info \ advisory : infos[i][k] = q.info[k]
                       /\ \A f \in AdvisoryFields :
                              infos[i][lower(f)]
                                  = decode(find_values(content, f)[1], <<",", " ">>)

\* the strict parser accepted an entry with a language outside the known
\* languages and printed the warning
C11_Witness ==
    /\ program = "osg"
    /\ \E i \in 1..Len(infos) :
           /\ Accepted(i)
           /\ "Warning: Language is not a known language" \in Range(printed[i])
           /\ \E l \in Range(infos[i]["code language"]) : l \notin Range(known_languages)

-----------------------------------------------------------------------------
(* C12 *)

\* C12: decoding is idempotent: every piece of a decoded value list of a
\* record, decoded again as a raw value, gives the list of that piece alone.
C12_DecodingIdempotent ==
    \A i \in 1..Len(infos) :
        \A k \in 1..Len(entries[i].content.lines) :
            LET key == lower(entries[i].content.lines[k].field)
            IN  Has(infos[i], key) =>
                    \A piece \in Range(infos[i][key]) :
                        decode(piece, Separator) = <<piece>>

-----------------------------------------------------------------------------
(* C13 *)

\* the frequency tables of the statistics page and the field each is made of
Facets ==
    {<<"languages", "code language">>, <<"licenses", "code license">>,
     <<"keywords", "keywords">>, <<"build_systems", "build system">>,
     <<"platforms", "platform">>}

\* the occurrences of a field: the positions of its values in the records
Occurrences(field) ==
    UNION {{<<i, k>> : k \in 1..Len(infos[i][field])} :
              i \in {j \in 1..Len(infos) : Has(infos[j], field)}}

\* the sum of the counts of the rows of a table
RECURSIVE SumCounts(_)
SumCounts(rows) ==
    IF rows = <<>> THEN 0 ELSE Head(rows).count + SumCounts(Tail(rows))

\* C13: in every frequency table the frequency of a value is the number of its
\* occurrences over all records divided by the number of all occurrences of
\* the facet, each occurrence is counted once, there is one row for each
\* distinct value, and the counts of the rows add up to the number of all
\* occurrences.
C13_FrequencyDenominator ==
    statistics # << >> =>
        \A p \in Facets :
            LET rows == statistics[p[1]]
                occurrences == Occurrences(p[2])
                value(o) == infos[o[1]][p[2]][o[2]]
            IN  /\ \A r \in 1..Len(rows) :
                       /\ rows[r].total = Cardinality(occurrences)
                       /\ rows[r].count
                              = Cardinality({o \in occurrences : value(o) = rows[r].name})
                /\ {rows[r].name : r \in 1..Len(rows)}
                       = {value(o) : o \in occurrences}
                /\ \A r1, r2 \in 1..Len(rows) :
                       rows[r1].name = rows[r2].name => r1 = r2
                /\ SumCounts(rows) = Cardinality(occurrences)

\* statistics over records of which one has several languages and one the
\* same platform twice: the occurrences outnumber the records
C13_Witness ==
    /\ statistics # << >>
    /\ \E r \in 1..Len(statistics.languages) :
           statistics.languages[r].total > Len(infos)
    /\ \E i \in 1..Len(infos) :
           /\ Has(infos[i], "platform")
           /\ \E k1, k2 \in 1..Len(infos[i]["platform"]) :
                  k1 # k2 /\ infos[i]["platform"][k1] = infos[i]["platform"][k2]

-----------------------------------------------------------------------------
(* C14 *)

\* C14: the rows of every frequency table are in the order of descending
\* frequency, and rows of equal frequency in the ascending order of their
\* names, compared character by character by code point.
C14_TableOrder ==
    statistics # << >> =>
        \A p \in Facets :
            LET rows == statistics[p[1]]
            IN  \A r \in 1..(Len(rows) - 1) :
                    \/ rows[r].count > rows[r + 1].count
                    \/ /\ rows[r].count = rows[r + 1].count
                       /\ str_less(rows[r].name, rows[r + 1].name)

\* a table in which a more frequent value has the greater name and two values
\* are equally frequent
C14_Witness ==
    /\ statistics # << >>
    /\ \E p \in Facets :
           LET rows == statistics[p[1]]
           IN  \E r \in 1..(Len(rows) - 2) :
                   /\ rows[r].count > rows[r + 1].count
                   /\ str_less(rows[r + 1].name, rows[r].name)
                   /\ rows[r + 1].count = rows[r + 2].count

-----------------------------------------------------------------------------
(* C15 *)

\* the pairs of title and inactive year of the records with an inactive year
InactivePairs ==
    {<<infos[i]["title"], infos[i]["inactive"]>> :
        i \in {j \in 1..Len(infos) : Has(infos[j], "inactive")}}

\* C15: the inactive listing holds exactly the records that have an inactive
\* year, each as often as there are such records, with the greater year (the
\* years compared as text) first and records of the same year in the ascending
\* order of their names.
C15_InactiveRanking ==
    statistics # << >> =>
        LET rows == statistics.entries_inactive
        IN  /\ Range(rows) = InactivePairs
            /\ \A pair \in InactivePairs :
                   Cardinality({r \in 1..Len(rows) : rows[r] = pair})
                       = Cardinality({i \in 1..Len(infos) :
                                         /\ Has(infos[i], "inactive")
                                         /\ infos[i]["title"] = pair[1]
                                         /\ infos[i]["inactive"] = pair[2]})
            /\ \A r \in 1..(Len(rows) - 1) :
                   \/ str_less(rows[r + 1][2], rows[r][2])
                   \/ /\ rows[r + 1][2] = rows[r][2]
                      /\ ~str_less(rows[r + 1][1], rows[r][1])

\* the records B of 2018, A of 2020 and C of 2020, read in this order, are
\* listed as A of 2020, C of 2020, B of 2018
C15_Witness ==
    /\ statistics # << >>
    /\ Len(infos) = 3
    /\ infos[1]["title"] = <<"B">> /\ infos[2]["title"] = <<"A">>
    /\ infos[3]["title"] = <<"C">>
    /\ statistics.entries_inactive
           = << <<(<<"A">>), <<"2", "0", "2", "0">> >>,
                <<(<<"C">>), <<"2", "0", "2", "0">> >>,
                <<(<<"B">>), <<"2", "0", "1", "8">> >> >>

-----------------------------------------------------------------------------
(* C16 *)

\* C16: the build-system coverage is the number of records that have
\* build-system information over the number of all records, so that a record
\* with several build systems counts once and the figure is at most 100%.
C16_BuildSystemCoverage ==
    statistics # << >> =>
        /\ statistics.build_systems_available
               = <<Cardinality({i \in 1..Len(infos) : Has(infos[i], "build system")}),
                   Len(infos)>>
        /\ statistics.build_systems_available[1] <= statistics.build_systems_available[2]

-----------------------------------------------------------------------------
(* C17 *)

Systems == <<"git", "svn", "hg", "bzr">>

\* whether a repository passes the test of a system
Matches(repo, system, same_object) ==
    CASE system = "git" -> git_repo(repo)
      [] system = "svn" -> svn_repo(repo, same_object)
      [] system = "hg" -> hg_repo(repo)
      [] system = "bzr" -> bzr_repo(repo)

\* the systems under which the archive lists hold a repository
FiledUnder(repo) ==
    {system \in Range(Systems) : repo \in Range(archives.primary_repos[system])}

\* the retained repositories of the records
Retained ==
    UNION {Range(retained_repos(infos[i]["code repository-raw"])) :
              i \in {j \in 1..Len(infos) : Has(infos[j], "code repository-raw")}}

\* C17: every retained repository is filed under the first of git, svn, hg, bzr
\* whose test it passes and under no other system, and under none when it
\* passes no test; of the four examples the first is filed under git, the
\* second under hg, the third under bzr and the last under none.
C17_ClassificationPriority ==
    /\ archives # << >> =>
           \E same_object \in BOOLEAN :
               \A repo \in Retained :
                   LET passed == {k \in 1..Len(Systems) :
                                     Matches(repo, Systems[k], same_object)}
                   IN  FiledUnder(repo)
                           = {Systems[k] : k \in {j \in passed : \A l \in passed : j <= l}}
    /\ \A same_object \in BOOLEAN :
           /\ system_of(raw_values("Code repository")[11], same_object) = "git"
           /\ system_of(raw_values("Code repository")[5], same_object) = "hg"
           /\ system_of(raw_values("Code repository")[6], same_object) = "bzr"
           /\ system_of(raw_values("Code repository")[12], same_object) = "none"

\* a repository that passes the test of git and the test of bzr was filed
\* under git alone
C17_Witness ==
    /\ archives # << >>
    /\ \E repo \in Retained :
           /\ git_repo(repo) /\ bzr_repo(repo)
           /\ FiledUnder(repo) = {"git"}

-----------------------------------------------------------------------------
(* C18 *)

\* C18: every retained repository that passes none of the four tests is in the
\* list unconsumed_entries, in an entry with the title of its record and a
\* value that holds the repository, also when another repository of the same
\* record was filed.
C18_NoSilentDrop ==
    archives # << >> =>
        \E same_object \in BOOLEAN :
            \A i \in 1..Len(infos) :
                Has(infos[i], "code repository-raw") =>
                    \A repo \in Range(retained_repos(infos[i]["code repository-raw"])) :
                        (\A k \in 1..Len(Systems) : ~Matches(repo, Systems[k], same_object))
                        => \E u \in Range(archives.unconsumed_entries) :
                               /\ u[1] = infos[i]["title"]
                               /\ contains(u[2], repo)

-----------------------------------------------------------------------------
(* C19 *)

\* the Game cell of the row of record i
GameCell(i) ==
    infos[i]["title"] \o game_home \o infos[i]["home"][1] \o game_entry
    \o infos[i]["path"] \o game_end

\* the beta or mature token of a state list that has one
PrimaryState(v) == CHOOSE t \in Range(v) : t = beta \/ t = mature

\* C19: the State cell of the row of every exported record whose state list
\* has one of the tokens beta and mature is that token, " / ", and "inactive since " with
\* the inactive year when the record has one and "active" when it has none,
\* wherever the token stands in the state list.
C19_StateSummary ==
    db # << >> =>
        \A i \in 1..Len(infos) :
            ((beta \in Range(infos[i]["state"])) # (mature \in Range(infos[i]["state"]))) =>
                \A r \in 1..Len(db) :
                    db[r].game = GameCell(i) =>
                        db[r].state
                            = PrimaryState(infos[i]["state"]) \o <<" ", "/", " ">>
                              \o (IF Has(infos[i], "inactive")
                                  THEN phrase \o infos[i]["inactive"]
                                  ELSE state_active)

-----------------------------------------------------------------------------
(* C20 *)

\* C20: the listing of the C and C++ projects with a build system different
\* from CMake holds exactly the titles of the records whose languages include
\* C or C++, that have build-system information, and whose build systems do
\* not include CMake.
C20_CMakeCrossTab ==
    statistics # << >> =>
        Range(statistics.c_cpp_project_not_cmake)
            = {infos[i]["title"] :
                  i \in {j \in 1..Len(infos) :
                            /\ language_C \in Range(infos[j]["code language"])
                               \/ language_Cpp \in Range(infos[j]["code language"])
                            /\ Has(infos[j], "build system")
                            /\ build_system_CMake \notin Range(infos[j]["build system"])}}

-----------------------------------------------------------------------------
(* C21 *)

\* C21: every list that a record holds under the name of a decoded field is
\* not empty, and each of its pieces is a non-empty string without whitespace
\* at its start or its end, also when the piece was unwrapped from <...>.
C21_DecodedValues ==
    \A i \in 1..Len(infos) :
        \A k \in 1..Len(entries[i].content.lines) :
            LET key == lower(entries[i].content.lines[k].field)
            IN  Has(infos[i], key) =>
                    /\ infos[i][key] # << >>
                    /\ \A piece \in Range(infos[i][key]) :
                           /\ piece # << >>
                           /\ piece[1] \notin Whitespace
                           /\ piece[Len(piece)] \notin Whitespace

-----------------------------------------------------------------------------
(* C22 *)

\* the records of the run in the orders another run can present them in
Reorderings ==
    {[k \in 1..Len(infos) |-> infos[p[k]]] : p \in Permutations(1..Len(infos))}

\* the views of the statistics page the claim names
Views(page) ==
    <<page.languages, page.licenses, page.keywords, page.build_systems, page.platforms,
      page.entries_inactive, page.without_download_or_play, page.not_popular>>

\* C22: a second run over the same records in any other order writes the same
\* frequency tables, inactive listing, listing of the entries without download
\* or play, listing of the entries with a repository on no popular site, and
\* (the identity test of svn_repo ending as in the first run) the same
\* repository lists of the four systems as the run that is done.
C22_Determinism ==
    (program = "maintenance" /\ pc = "done") =>
        \A other \in Reorderings :
            /\ generate_statistics(other).raised = "none"
            /\ Views(generate_statistics(other).out) = Views(statistics)
            /\ \A same_object \in BOOLEAN :
                   archives.primary_repos
                       = update_primary_code_repositories(infos, same_object).primary_repos
                   => update_primary_code_repositories(other, same_object).primary_repos
                          = archives.primary_repos

\* a finished run over three records that are in the order neither of their
\* titles nor of their repositories, with two values equally frequent
C22_Witness ==
    /\ program = "maintenance" /\ pc = "done"
    /\ Len(infos) = 3
    /\ str_less(infos[2]["title"], infos[1]["title"])
    /\ str_less(infos[3]["code repository"][1], infos[2]["code repository"][1])
    /\ Len(archives.primary_repos.git) = 2
    /\ Len(statistics.without_download_or_play) >= 2
    /\ \E r \in 1..(Len(statistics.languages) - 1) :
           statistics.languages[r].count = statistics.languages[r + 1].count

====
